---- MODULE Spec2Model ----
(***************************************************************************)
(* Escalation and enforcement engine of the multi-agent productivity       *)
(* assistant (src/backend/main.py): the Manager agent, the Compaction      *)
(* agent, the interjection gate, the strike row and the penalty ledger,    *)
(* over the SQLite tables the endpoints share.                             *)
(*                                                                         *)
(* Every endpoint is a plain `def`, so FastAPI runs each request on a      *)
(* worker thread and requests overlap.  Every endpoint opens its own       *)
(* sqlite3 connection; a SELECT runs outside any transaction, and the      *)
(* statements between the first INSERT/UPDATE/DELETE of a connection and   *)
(* its commit() form one atomic transaction.  One action of this module is *)
(* therefore one SELECT, or one transaction, or one call of the oracle.    *)
(*                                                                         *)
(* Columns that no code path reads back (row timestamps, updated_at,       *)
(* reasoning, elapsed_ms, account_number, ...) are left out of the rows.   *)
(*                                                                         *)
(* Nine specifications share the actions:                                  *)
(*   Spec      two Manager workers and every other request overlap;        *)
(*   SpecSolo  one Manager worker overlaps with every other request, the   *)
(*             oracle and the store may fail, and the worker is invoked    *)
(*             often enough to reach the strike cap and go past it;        *)
(*   SpecSeq   requests are served one at a time, with tasks, the clock,   *)
(*             every kind of oracle answer and the failures; `snap` keeps  *)
(*             the database as the invocation in progress found it;        *)
(*   SpecAll   every endpoint that writes (the assessment, the rewards and *)
(*             the penalty endpoint included), one request at a time, with *)
(*             a malformed oracle answer and the response of acknowledge;  *)
(*   SpecGate  two Manager workers and acknowledge overlap, with every     *)
(*             kind of answer about interjections;                         *)
(*   SpecLedger  the penalty endpoint on two workers, a Manager worker and *)
(*             the resets of the account overlap, on a fresh account and   *)
(*             on one that earlier penalties have almost emptied;          *)
(*   SpecReward  the reward endpoint, the assessment of a task list of up  *)
(*             to two entries and the reset of the orders overlap, from    *)
(*             every tasks table of up to two rows;                        *)
(*   SpecTasks the Manager, acknowledge, the assessment, the task          *)
(*             endpoints and the full reset, one request at a time, from   *)
(*             every tasks table of up to two rows;                        *)
(*   SpecIndex the assessment alone, with every kind of element in the     *)
(*             list of indices the oracle returns.                         *)
(***************************************************************************)
EXTENDS Integers, Sequences, FiniteSets, TLC

(***************************************************************************)
(* Bounds of the model.                                                    *)
(***************************************************************************)
\* Manager invocations that get past the first gate check: while the workers
\* overlap, with one worker, and with one request at a time.
MaxRuns == 3
MaxSoloRuns == 4
MaxSeqRuns == 4
\* The same, with every endpoint in the system.
MaxAllRuns == 2
\* POST /api/sbi/penalty requests with every endpoint in the system.
MaxAllDebits == 1
\* Manager invocations while the gate is under study.
MaxGateRuns == 3
\* Manager invocations and POST /api/sbi/penalty requests while the account is
\* under study.
MaxLedgerRuns == 1
MaxLedgerDebits == 2
\* Penalties already served when the study of the account begins.
MaxPrior == 49
\* Maintenance requests (clear-history, reset-all, sbi reset) the clients send.
MaxResets == 1
\* The clock runs from 0 to MaxTime.
MaxTime == 1
\* Rows of the observations table.
MaxObservations == 1
\* Rows of the compactions table.
MaxCompactions == 1
\* Rows of the tasks table.
MaxTasks == 1
\* Rows of the blinkit_orders table.
MaxOrders == 1
\* Manager invocations while the tasks are under study.
MaxTaskRuns == 2
\* The counts a client sends with POST /api/blinkit/reward run from 0 to MaxCount.
MaxCount == 4
\* Rows of the tasks table, and of the task list of a request, while the
\* rewards are under study.
MaxBoard == 2

\* The worker threads that serve POST /api/manager.
Managers == {"m1", "m2"}
\* The worker threads that serve POST /api/sbi/penalty.
Payers == {"d1", "d2"}

(***************************************************************************)
(* CONFIG                                                                  *)
(***************************************************************************)
sbi_initial_balance == 10000
penalty_strike_1 == 50
penalty_strike_2 == 100
penalty_strike_3 == 200
reward_single_task == "Dairy Milk Silk Chocolate"
reward_half_tasks == "Cold Coffee + Cookies Pack"
reward_all_tasks == "Premium Snack Box + Ice Cream"
\* The cap of the strike counter.
StrikeCap == 3
\* The trailing window of the Compaction agent, in clock ticks (30 minutes).
CompactionWindow == 1

(***************************************************************************)
(* Values                                                                  *)
(***************************************************************************)
\* Python's None and a present value.
None == <<>>
Some(x) == <<x>>
\* dict.get(key, default) on the oracle's JSON object.
Get(opt, default) == IF opt = None THEN default ELSE opt[1]

Min(a, b) == IF a < b THEN a ELSE b
Max(a, b) == IF a > b THEN a ELSE b

\* Task texts and the texts the oracle names, as character sequences.
TaskTexts == {<<"a", "b">>}
OracleTexts == {<<"a">>, <<"c">>}
\* Interjection messages of the oracle ("" is the empty string).
Messages == {"stop scrolling"}

\* text LIKE '%pattern%': pattern occurs in text as a contiguous substring.
Like(text, pattern) ==
    \E i \in 0..(Len(text) - Len(pattern)) :
        \A j \in 1..Len(pattern) : text[i + j] = pattern[j]


\* One amount for every strike.
PenaltyFlat(strike) == penalty_strike_1

\* CONFIG["penalty_strike_<n>"] selected by the clamped strike.
PenaltyFor(strike) ==
    IF strike = 1 THEN penalty_strike_1
    ELSE IF strike = 2 THEN penalty_strike_2
    ELSE penalty_strike_3

\* The oracle's JSON objects the model draws from: every field may be missing.
\* "reasoning" is missing (None), null (Some(None)) or a string (Some(Some(s))).
\* {} (no field at all), and: distracted, asks for an interjection with a message.
CoreVerdicts ==
    { [is_productive |-> None, interjection |-> None,
       interjection_message |-> None, tasks_to_complete |-> None,
       reasoning |-> None] }
    \cup
    { [is_productive |-> Some(FALSE), interjection |-> Some(TRUE),
       interjection_message |-> Some(m), tasks_to_complete |-> Some(<<>>),
       reasoning |-> Some(Some("scrolling"))] : m \in Messages }

Verdicts ==
    CoreVerdicts
    \cup
    {  \* productive, names a text as completed
       [is_productive |-> Some(TRUE), interjection |-> Some(FALSE),
        interjection_message |-> None, tasks_to_complete |-> Some(<<t>>),
        reasoning |-> Some(Some("working"))] : t \in OracleTexts }
    \cup
    {  \* asks for an interjection, the message is null or empty
       [is_productive |-> Some(FALSE), interjection |-> Some(TRUE),
        interjection_message |-> m, tasks_to_complete |-> None,
        reasoning |-> Some(Some("scrolling"))] : m \in {None, Some("")} }

\* The answers that decide whether the Manager escalates: the core ones, an
\* interjection asked for without a message, and a message without the request.
GateVerdicts ==
    CoreVerdicts
    \cup
    { [is_productive |-> Some(FALSE), interjection |-> Some(TRUE),
       interjection_message |-> m, tasks_to_complete |-> None,
       reasoning |-> Some(Some("scrolling"))] : m \in {None, Some("")} }
    \cup
    { [is_productive |-> Some(FALSE), interjection |-> Some(FALSE),
       interjection_message |-> Some(m), tasks_to_complete |-> None,
       reasoning |-> Some(Some("scrolling"))] : m \in Messages }

\* JSON objects whose "reasoning" is null: distracted, asks for an interjection
\* with a message.
NullReasoning ==
    { [is_productive |-> Some(FALSE), interjection |-> Some(TRUE),
       interjection_message |-> Some(m), tasks_to_complete |-> Some(<<>>),
       reasoning |-> Some(None)] : m \in Messages }

\* The answers that decide the mood and the tasks a run marks: {} (productive,
\* nothing else), distracted without an interjection, naming no text, a text
\* that occurs in a task or a text that may occur in none, and distracted with
\* an interjection, naming no text or one.
MoodVerdicts ==
    { [is_productive |-> None, interjection |-> None,
       interjection_message |-> None, tasks_to_complete |-> None,
       reasoning |-> None] }
    \cup
    { [is_productive |-> Some(FALSE), interjection |-> Some(FALSE),
       interjection_message |-> None, tasks_to_complete |-> t,
       reasoning |-> Some(Some("scrolling"))] :
         t \in {None} \cup {Some(<<x>>) : x \in OracleTexts} }
    \cup
    { [is_productive |-> Some(FALSE), interjection |-> Some(TRUE),
       interjection_message |-> Some(m), tasks_to_complete |-> t,
       reasoning |-> Some(Some("scrolling"))] :
         m \in Messages, t \in {None, Some(<<<<"a">>>>)} }

\* The strike_count values a client sends with POST /api/sbi/penalty.
Strikes == {0, 2, 5}

\* The characters str.strip() drops.
Whitespace == {" ", "\t"}

\* The transcripts a client sends: empty, of whitespace only, and with words
\* between whitespace.
Transcripts == {<<>>, <<" ", "\t">>, <<" ", "o", "k", " ">>}

\* The task lists a client sends with POST /api/assess-task-completion.
TaskLists ==
    {<<>>} \cup {<<[text |-> t, done |-> d]>> : t \in TaskTexts, d \in BOOLEAN}

\* The texts of the tasks while the rewards are under study.
BoardTexts == {<<"a", "b">>, <<"c">>}

\* The tasks tables of up to MaxBoard rows that create_task and update_task build.
Boards ==
    UNION {[1..n -> [text : BoardTexts, done : {0, 1}]] : n \in 0..MaxBoard}

\* The task lists of up to MaxBoard entries a client sends with an assessment.
BoardLists ==
    UNION {[1..n -> [text : BoardTexts, done : BOOLEAN]] : n \in 0..MaxBoard}

\* The JSON values an element of completed_task_numbers may be: an integer, a
\* number with a fraction (kept in tenths: 1.5 is 15), a string, null.
JInt(n) == [type |-> "int", n |-> n]
JFloat(tenths) == [type |-> "float", tenths |-> tenths]
JStr(chars) == [type |-> "str", chars |-> chars]
JNull == [type |-> "null"]

\* The oracle's JSON objects for an assessment of such a list.
BoardAssessments ==
    [completed_task_numbers :
        {None, Some(<<JInt(1)>>), Some(<<JInt(2)>>), Some(<<JInt(1), JInt(2)>>)},
     is_compliant : {None, Some(FALSE)}]

\* The oracle's JSON objects for an assessment: every field may be missing.
Assessments ==
    [completed_task_numbers : {None, Some(<<JInt(1)>>), Some(<<JInt(0), JInt(2)>>)},
     is_compliant : {None, Some(FALSE)}]

\* The oracle's JSON objects whose completed_task_numbers try the conversion
\* of line 1500: indices in and out of range, an index twice, a fraction,
\* strings with and without a number in them, null.
IndexAssessments ==
    [completed_task_numbers :
        {None} \cup
        {Some(<<j>>) : j \in {JInt(-1), JInt(0), JInt(1), JInt(2), JInt(3),
                              JFloat(15), JFloat(-5), JStr(<<" ", "2">>),
                              JStr(<<"x">>), JStr(<<"1", ".", "5">>), JNull}} \cup
        {Some(<<JInt(1), JInt(1)>>), Some(<<JInt(3), JInt(2), JNull, JInt(1)>>)},
     is_compliant : {None}]

(***************************************************************************)
(* State                                                                   *)
(***************************************************************************)
VARIABLES
    tasks,          \* table tasks: sequence of [text, done]
    observations,   \* table observations: sequence of [timestamp]
    compactions,    \* table compactions
    decisions,      \* table manager_decisions
    pending,        \* table pending_interjections: sequence of [message, acknowledged]
    strike_count,   \* focus_strikes.strike_count (row id = 1)
    window_start,   \* focus_strikes.window_start
    balance,        \* sbi_account.balance (row id = 1)
    transactions,   \* table sbi_transactions
    orders,         \* table blinkit_orders
    now,            \* datetime.now()
    mpc,            \* mpc[p]: where manager_check of worker p stands
    mloc,           \* mloc[p]: the local variables of manager_check of worker p
    cpc,            \* where compact() stands
    cloc,           \* the local variables of compact()
    runs,           \* Manager invocations that got past the first gate check so far
    resets,         \* maintenance requests served so far
    snap,           \* history: the database as the invocation in progress found it
    apc,            \* where assess_task_completion stands
    aloc,           \* the local variables of assess_task_completion
    reply,          \* history: what the last acknowledge_interjection answered and marked
    ppc,            \* ppc[d]: where deduct_sbi_penalty of worker d stands
    ploc,           \* ploc[d]: the local variables of deduct_sbi_penalty of worker d
    debits          \* POST /api/sbi/penalty requests admitted so far

db == <<tasks, observations, compactions, decisions, pending, strike_count,
        window_start, balance, transactions, orders>>
procs == <<mpc, mloc, cpc, cloc, apc, aloc, ppc, ploc>>
hist == <<runs, resets, snap, reply, debits>>
vars == <<db, now, procs, hist>>

\* The locals of manager_check before its first statement (lines 1076-1100 assign them).
MLocInit ==
    [result |-> None,
     is_productive |-> TRUE, interjection |-> FALSE, interjection_message |-> None,
     reasoning |-> Some(""),
     tasks_updated |-> <<>>, current |-> 0, strike_count |-> 0,
     penalty_amount |-> None, balance_after |-> None,
     current_balance |-> 0, skipped |-> FALSE]

\* The locals of assess_task_completion before its first statement.
ALocInit ==
    [transcript |-> <<>>, task_list |-> <<>>, result |-> None,
     tasks_to_complete |-> <<>>, is_compliant |-> TRUE,
     compliance_message |-> "", reward |-> None]

\* The locals of deduct_sbi_penalty before its first statement.
PLocInit == [strike |-> 0, current_balance |-> 0]

CLocInit == [n_obs |-> 0, period_start |-> 0, period_end |-> 0, current_strikes |-> 0]

NoSnap == [strike_count |-> 0, pending |-> <<>>, transactions |-> <<>>,
           decisions |-> <<>>, balance |-> 0, tasks |-> <<>>]
Snapshot == [strike_count |-> strike_count, pending |-> pending,
             transactions |-> transactions, decisions |-> decisions,
             balance |-> balance, tasks |-> tasks]

\* init_db() on a fresh database file.
Init ==
    /\ tasks = <<>>
    /\ observations = <<>>
    /\ compactions = <<>>
    /\ decisions = <<>>
    /\ pending = <<>>
    /\ strike_count = 0
    /\ window_start = 0
    /\ balance = sbi_initial_balance
    /\ transactions = <<>>
    /\ orders = <<>>
    /\ now = 0
    /\ mpc = [p \in Managers |-> "idle"]
    /\ mloc = [p \in Managers |-> MLocInit]
    /\ cpc = "idle"
    /\ cloc = CLocInit
    /\ runs = 0
    /\ resets = 0
    /\ snap = NoSnap
    /\ apc = "idle"
    /\ aloc = ALocInit
    /\ reply = None
    /\ ppc = [d \in Payers |-> "idle"]
    /\ ploc = [d \in Payers |-> PLocInit]
    /\ debits = 0

(***************************************************************************)
(* Helpers                                                                 *)
(***************************************************************************)
Unacknowledged == SelectSeq(pending, LAMBDA r : r.acknowledged = 0)

\* The count taken over the acknowledged rows.
HasPendingAcknowledged == Len(SelectSeq(pending, LAMBDA r : r.acknowledged = 1)) > 0

\* _has_pending_interjection(): SELECT COUNT(*) ... WHERE acknowledged = 0, count > 0.
HasPending == Len(Unacknowledged) > 0

\* UPDATE tasks SET done = 1 - done WHERE text LIKE '%pattern%': a statement
\* that flips the rows it matches.
MarkLikeToggles(ts, pattern) ==
    [i \in 1..Len(ts) |->
        IF Like(ts[i].text, pattern)
        THEN [ts[i] EXCEPT !.done = 1 - ts[i].done] ELSE ts[i]]

\* UPDATE tasks SET done = 1 WHERE text LIKE '%pattern%' AND done = 0.
MarkLike(ts, pattern) ==
    [i \in 1..Len(ts) |->
        IF Like(ts[i].text, pattern) /\ ts[i].done = 0
        THEN [ts[i] EXCEPT !.done = 1] ELSE ts[i]]

\* The loop of lines 1086-1091 over tasks_to_complete.
RECURSIVE MarkAllLike(_, _)
MarkAllLike(ts, patterns) ==
    IF patterns = <<>> THEN ts
    ELSE MarkAllLike(MarkLike(ts, Head(patterns)), Tail(patterns))


\* The increment without its cap.
NextStrikeUncapped(current) == current + 1

\* Line 1112: strike_count = min(3, current + 1).
NextStrike(current) == Min(StrikeCap, current + 1)

\* Line 468: strike = max(1, min(3, req.strike_count)).
ClampStrike(n) == Max(1, Min(StrikeCap, n))

\* The difference without its floor.
NewBalanceUnclamped(current_balance, amount) == current_balance - amount

\* Line 486: new_balance = max(0, current_balance - amount).
NewBalance(current_balance, amount) == Max(0, current_balance - amount)

\* Line 1101: `if interjection and interjection_message` (None and "" are falsy).
WantsInterjection(l) ==
    l.interjection /\ l.interjection_message # None /\ l.interjection_message # Some("")

\* The forgiveness test with a strict comparison.
ForgivenBelowCap(current_strikes) == current_strikes < StrikeCap

\* Line 914: the forgiveness test of the Compaction agent.
Forgiven(current_strikes) == current_strikes <= StrikeCap

(***************************************************************************)
(* manager_check (POST /api/manager), lines 949-1202                       *)
(***************************************************************************)
\* A skip that writes a manager_decisions row before it returns.
M_SkipLogged(p, found) ==
    /\ mpc[p] = "idle"
    /\ HasPending
    /\ decisions' = Append(decisions,
            [is_productive |-> TRUE, interjection |-> FALSE,
             interjection_message |-> None, tasks_updated |-> <<>>])
    /\ mpc' = [mpc EXCEPT ![p] = "done"]
    /\ mloc' = [mloc EXCEPT ![p] = [MLocInit EXCEPT !.skipped = TRUE]]
    /\ snap' = found
    /\ UNCHANGED <<runs, resets, reply, debits>>
    /\ UNCHANGED <<tasks, observations, compactions, pending, strike_count,
                   window_start, balance, transactions, orders, now, cpc, cloc, apc, aloc, ppc, ploc>>

\* Lines 960-976: the first gate check finds an unacknowledged row: return at once.
M_Skip(p, found) ==
    /\ mpc[p] = "idle"
    /\ HasPending
    /\ mpc' = [mpc EXCEPT ![p] = "done"]
    /\ mloc' = [mloc EXCEPT ![p] = [MLocInit EXCEPT !.skipped = TRUE]]
    /\ snap' = found
    /\ UNCHANGED <<runs, resets, reply, debits>>
    /\ UNCHANGED <<db, now, cpc, cloc, apc, aloc, ppc, ploc>>

\* Lines 961, 982-1025: the first gate check passes; the context is read.
M_Start(p, found, budget) ==
    /\ mpc[p] = "idle"
    /\ ~HasPending
    /\ runs < budget
    /\ runs' = runs + 1
    /\ mpc' = [mpc EXCEPT ![p] = "oracle"]
    /\ snap' = found
    /\ UNCHANGED <<resets, reply, debits>>
    /\ UNCHANGED <<db, now, mloc, cpc, cloc, apc, aloc, ppc, ploc>>

\* Fields the oracle left out read as "distracted".
FieldsOfDistracted(v) ==
    [is_productive |-> Get(v.is_productive, FALSE),
     interjection |-> Get(v.interjection, FALSE),
     interjection_message |-> v.interjection_message,
     reasoning |-> Get(v.reasoning, Some("")),
     tasks_to_complete |-> Get(v.tasks_to_complete, <<>>)]

\* Lines 1076-1080: the fields of the oracle's JSON object, with their defaults.
FieldsOf(v) ==
    [is_productive |-> Get(v.is_productive, TRUE),
     interjection |-> Get(v.interjection, FALSE),
     interjection_message |-> v.interjection_message,
     reasoning |-> Get(v.reasoning, Some("")),
     tasks_to_complete |-> Get(v.tasks_to_complete, <<>>)]

\* Lines 1027-1093: the oracle answers v; its fields get their defaults and the
\* tasks it names are marked done in one transaction.
M_Judge(p, v) ==
    /\ mpc[p] = "oracle"
    /\ LET tasks_to_complete == FieldsOf(v).tasks_to_complete
           l == [mloc[p] EXCEPT
                   !.result = Some(v),
                   !.is_productive = FieldsOf(v).is_productive,
                   !.interjection = FieldsOf(v).interjection,
                   !.interjection_message = FieldsOf(v).interjection_message,
                   !.reasoning = FieldsOf(v).reasoning,
                   !.tasks_updated = tasks_to_complete]
       IN /\ tasks' = MarkAllLike(tasks, tasks_to_complete)
          /\ mloc' = [mloc EXCEPT ![p] = l]
          /\ mpc' = [mpc EXCEPT ![p] = IF WantsInterjection(l) THEN "gate2" ELSE "decide"]
    /\ UNCHANGED <<observations, compactions, decisions, pending, strike_count,
                   window_start, balance, transactions, orders, now, cpc, cloc, apc, aloc, ppc, ploc, hist>>

\* Lines 1027, 1074: the oracle call raises or its content is not JSON: the
\* request fails before anything was written.
M_OracleFail(p) ==
    /\ mpc[p] = "oracle"
    /\ mpc' = [mpc EXCEPT ![p] = "idle"]
    /\ mloc' = [mloc EXCEPT ![p] = MLocInit]
    /\ snap' = NoSnap
    /\ UNCHANGED <<runs, resets, reply, debits>>
    /\ UNCHANGED <<db, now, cpc, cloc, apc, aloc, ppc, ploc>>

\* A second gate check that lets every invocation through.
M_Gate2Open(p) ==
    /\ mpc[p] = "gate2"
    /\ mpc' = [mpc EXCEPT ![p] = "read_strike"]
    /\ UNCHANGED <<db, now, mloc, cpc, cloc, apc, aloc, ppc, ploc, hist>>

\* A second gate check that drops the flag of a blocked interjection and keeps
\* its message (line 1106 missing).
M_Gate2KeepsMessage(p) ==
    /\ mpc[p] = "gate2"
    /\ IF HasPending
       THEN /\ mloc' = [mloc EXCEPT ![p].interjection = FALSE]
            /\ mpc' = [mpc EXCEPT ![p] = "decide"]
       ELSE /\ mpc' = [mpc EXCEPT ![p] = "read_strike"]
            /\ UNCHANGED mloc
    /\ UNCHANGED <<db, now, cpc, cloc, apc, aloc, ppc, ploc, hist>>

\* Lines 1103-1107: the second gate check.
M_Gate2(p) ==
    /\ mpc[p] = "gate2"
    /\ IF HasPending
       THEN /\ mloc' = [mloc EXCEPT ![p].interjection = FALSE,
                                    ![p].interjection_message = None]
            /\ mpc' = [mpc EXCEPT ![p] = "decide"]
       ELSE /\ mpc' = [mpc EXCEPT ![p] = "read_strike"]
            /\ UNCHANGED mloc
    /\ UNCHANGED <<db, now, cpc, cloc, apc, aloc, ppc, ploc, hist>>

\* Lines 1110-1111: SELECT strike_count.
M_ReadStrike(p) ==
    /\ mpc[p] = "read_strike"
    /\ mloc' = [mloc EXCEPT ![p].current = strike_count]
    /\ mpc' = [mpc EXCEPT ![p] = "write"]
    /\ UNCHANGED <<db, now, cpc, cloc, apc, aloc, ppc, ploc, hist>>

\* Lines 1112-1122: UPDATE focus_strikes, INSERT INTO pending_interjections, commit.
M_Write(p) ==
    /\ mpc[p] = "write"
    /\ LET new == NextStrike(mloc[p].current)
       IN /\ strike_count' = new
          /\ mloc' = [mloc EXCEPT ![p].strike_count = new, ![p].current = 0]
    /\ pending' = Append(pending, [message |-> mloc[p].interjection_message[1],
                                   acknowledged |-> 0])
    /\ mpc' = [mpc EXCEPT ![p] = "deduct_read"]
    /\ UNCHANGED <<tasks, observations, compactions, decisions, window_start,
                   balance, transactions, orders, now, cpc, cloc, apc, aloc, ppc, ploc, hist>>

\* deduct_sbi_penalty, lines 480-485, called at line 1140: SELECT balance.
\* (Lines 1133-1137 read the balance just before, for the balance_before field of
\* the response, which nothing else uses; the field is not modelled.)
M_DeductRead(p) ==
    /\ mpc[p] = "deduct_read"
    /\ mloc' = [mloc EXCEPT ![p].current_balance = balance]
    /\ mpc' = [mpc EXCEPT ![p] = "deduct_write"]
    /\ UNCHANGED <<db, now, cpc, cloc, apc, aloc, ppc, ploc, hist>>

\* deduct_sbi_penalty, lines 468-474 and 486-503: UPDATE sbi_account,
\* INSERT INTO sbi_transactions, commit; lines 1144-1145 keep the result.
M_DeductWrite(p) ==
    /\ mpc[p] = "deduct_write"
    /\ LET strike == ClampStrike(mloc[p].strike_count)
           amount == PenaltyFor(strike)
           new_balance == NewBalance(mloc[p].current_balance, amount)
       IN /\ balance' = new_balance
          /\ transactions' = Append(transactions,
                [type |-> "PENALTY", amount |-> amount,
                 balance_after |-> new_balance, strike_count |-> strike])
          /\ mloc' = [mloc EXCEPT ![p].penalty_amount = Some(amount),
                                  ![p].balance_after = Some(new_balance),
                                  ![p].current_balance = 0]
    /\ mpc' = [mpc EXCEPT ![p] = "decide"]
    /\ UNCHANGED <<tasks, observations, compactions, decisions, pending, strike_count,
                   window_start, orders, now, cpc, cloc, apc, aloc, ppc, ploc, hist>>

\* A failing deduction that ends the request with the error.
M_DeductFailAborts(p) ==
    /\ mpc[p] \in {"deduct_read", "deduct_write"}
    /\ mpc' = [mpc EXCEPT ![p] = "idle"]
    /\ mloc' = [mloc EXCEPT ![p] = MLocInit]
    /\ snap' = NoSnap
    /\ UNCHANGED <<runs, resets, reply, debits>>
    /\ UNCHANGED <<db, now, cpc, cloc, apc, aloc, ppc, ploc>>

\* Lines 1147-1150: deduct_sbi_penalty raises (the store refuses the read or the
\* write, the uncommitted transaction is dropped); the exception is swallowed.
M_DeductFail(p) ==
    /\ mpc[p] \in {"deduct_read", "deduct_write"}
    /\ mloc' = [mloc EXCEPT ![p].penalty_amount = None, ![p].balance_after = None,
                            ![p].current_balance = 0]
    /\ mpc' = [mpc EXCEPT ![p] = "decide"]
    /\ UNCHANGED <<db, now, cpc, cloc, apc, aloc, ppc, ploc, hist>>

\* Lines 1152-1169: INSERT INTO manager_decisions, commit; then the response.
M_Decide(p) ==
    /\ mpc[p] = "decide"
    /\ decisions' = Append(decisions,
            [is_productive |-> mloc[p].is_productive,
             interjection |-> mloc[p].interjection,
             interjection_message |-> mloc[p].interjection_message,
             tasks_updated |-> mloc[p].tasks_updated])
    /\ mpc' = [mpc EXCEPT ![p] = "done"]
    /\ UNCHANGED <<tasks, observations, compactions, pending, strike_count,
                   window_start, balance, transactions, orders, now, mloc, cpc, cloc, apc, aloc, ppc, ploc, hist>>

\* Lines 273-285, 1190-1202: ManagerResponse takes the locals as they are; its
\* `reasoning: str` refuses None.  (The other fields hold valid values here.)
ValidResponse(l) == l.reasoning # None

\* Lines 1190-1202: ManagerResponse(...) raises a validation error: the request
\* fails after its commits.
M_Invalid(p) ==
    /\ mpc[p] = "done"
    /\ ~ValidResponse(mloc[p])
    /\ mpc' = [mpc EXCEPT ![p] = "idle"]
    /\ mloc' = [mloc EXCEPT ![p] = MLocInit]
    /\ snap' = NoSnap
    /\ UNCHANGED <<runs, resets, reply, debits>>
    /\ UNCHANGED <<db, now, cpc, cloc, apc, aloc, ppc, ploc>>

\* The response has been sent; the worker is free again.
M_Return(p) ==
    /\ mpc[p] = "done"
    /\ ValidResponse(mloc[p])
    /\ mpc' = [mpc EXCEPT ![p] = "idle"]
    /\ mloc' = [mloc EXCEPT ![p] = MLocInit]
    /\ snap' = NoSnap
    /\ UNCHANGED <<runs, resets, reply, debits>>
    /\ UNCHANGED <<db, now, cpc, cloc, apc, aloc, ppc, ploc>>

\* _get_mood, lines 1281-1295.
GetMood(strikes, is_productive, tasks_completed) ==
    IF tasks_completed \/ (is_productive /\ strikes = 0) THEN "happy"
    ELSE IF strikes >= 3 THEN "angry"
    ELSE IF strikes = 2 THEN "sad"
    ELSE "cool"

\* The ManagerResponse built from the locals l (lines 967-976, 1184-1202).
ResponseOf(l) ==
    LET strikes == IF l.interjection THEN l.strike_count ELSE 0
    IN [is_productive |-> l.is_productive,
        interjection |-> l.interjection,
        interjection_message |-> l.interjection_message,
        strike_count |-> strikes,
        mood |-> IF l.skipped THEN "cool"
                 ELSE GetMood(strikes, l.is_productive, Len(l.tasks_updated) > 0),
        tasks_updated |-> l.tasks_updated,
        penalty_amount |-> l.penalty_amount,
        balance_after |-> l.balance_after]

\* The ManagerResponse of worker p once mpc[p] = "done".
Response(p) == ResponseOf(mloc[p])


(***************************************************************************)
(* The interjection gate and the maintenance endpoints                     *)
(***************************************************************************)
\* What the history keeps of an acknowledgement: its response, and the number of
\* rows its UPDATE marked.
Answered(status, strikes) ==
    Some([response |-> [status |-> status, strike_count |-> strikes],
          marked |-> Len(Unacknowledged)])

\* An acknowledgement that also forgives the strikes.
AcknowledgeForgives(keep) ==
    /\ pending' = [i \in 1..Len(pending) |-> [pending[i] EXCEPT !.acknowledged = 1]]
    /\ strike_count' = 0
    /\ reply' = IF keep THEN Answered("acknowledged", 0) ELSE None
    /\ UNCHANGED <<tasks, observations, compactions, decisions, window_start,
                   balance, transactions, orders, now, procs, runs, resets, snap, debits>>

\* An acknowledgement whose response reports no strike.
AcknowledgeReportsNone(keep) ==
    /\ pending' = [i \in 1..Len(pending) |-> [pending[i] EXCEPT !.acknowledged = 1]]
    /\ reply' = IF keep THEN Answered("acknowledged", 0) ELSE None
    /\ UNCHANGED <<tasks, observations, compactions, decisions, strike_count, window_start,
                   balance, transactions, orders, now, procs, runs, resets, snap, debits>>

\* An acknowledgement that deletes the rows instead of marking them.
AcknowledgeDeletes(keep) ==
    /\ pending' = <<>>
    /\ reply' = IF keep THEN Answered("acknowledged", strike_count) ELSE None
    /\ UNCHANGED <<tasks, observations, compactions, decisions, strike_count, window_start,
                   balance, transactions, orders, now, procs, runs, resets, snap, debits>>

\* acknowledge_interjection, lines 1235-1246: one transaction (the UPDATE, then
\* the SELECT of strike_count, then commit) and the response.  The history keeps
\* the response when `keep` asks for it.
Acknowledge(keep) ==
    /\ pending' = [i \in 1..Len(pending) |-> [pending[i] EXCEPT !.acknowledged = 1]]
    /\ reply' = IF keep THEN Answered("acknowledged", strike_count) ELSE None
    /\ UNCHANGED <<tasks, observations, compactions, decisions, strike_count, window_start,
                   balance, transactions, orders, now, procs, runs, resets, snap, debits>>

\* A clearing that takes the reward orders along.
ClearHistoryAndOrders ==
    /\ resets < MaxResets
    /\ resets' = resets + 1
    /\ observations' = <<>>
    /\ compactions' = <<>>
    /\ decisions' = <<>>
    /\ pending' = <<>>
    /\ orders' = <<>>
    /\ strike_count' = 0
    /\ window_start' = now
    /\ UNCHANGED <<tasks, balance, transactions, now, procs, runs, snap, reply, debits>>

\* clear_history, lines 1599-1614: one transaction.
ClearHistory ==
    /\ resets < MaxResets
    /\ resets' = resets + 1
    /\ observations' = <<>>
    /\ compactions' = <<>>
    /\ decisions' = <<>>
    /\ pending' = <<>>
    /\ strike_count' = 0
    /\ window_start' = now
    /\ UNCHANGED <<tasks, balance, transactions, orders, now, procs, runs, snap, reply, debits>>

\* The same transaction were the DELETE of line 1637 missing: the reward orders
\* outlive the reset.
ResetAllKeepsOrders ==
    /\ resets < MaxResets
    /\ resets' = resets + 1
    /\ tasks' = <<>>
    /\ observations' = <<>>
    /\ compactions' = <<>>
    /\ decisions' = <<>>
    /\ pending' = <<>>
    /\ transactions' = <<>>
    /\ strike_count' = 0
    /\ window_start' = now
    /\ balance' = sbi_initial_balance
    /\ UNCHANGED <<orders, now, procs, runs, snap, reply, debits>>

\* reset_all_data, lines 1617-1670: one transaction.
ResetAll ==
    /\ resets < MaxResets
    /\ resets' = resets + 1
    /\ tasks' = <<>>
    /\ observations' = <<>>
    /\ compactions' = <<>>
    /\ decisions' = <<>>
    /\ pending' = <<>>
    /\ transactions' = <<>>
    /\ orders' = <<>>
    /\ strike_count' = 0
    /\ window_start' = now
    /\ balance' = sbi_initial_balance
    /\ UNCHANGED <<now, procs, runs, snap, reply, debits>>

\* reset_sbi_account, lines 520-532: one transaction.
ResetSbi ==
    /\ resets < MaxResets
    /\ resets' = resets + 1
    /\ balance' = sbi_initial_balance
    /\ transactions' = <<>>
    /\ UNCHANGED <<tasks, observations, compactions, decisions, pending, strike_count,
                   window_start, orders, now, procs, runs, snap, reply, debits>>

(***************************************************************************)
(* Tasks and observations                                                  *)
(***************************************************************************)
\* create_task, lines 702-712.
CreateTask(text) ==
    /\ Len(tasks) < MaxTasks
    /\ tasks' = Append(tasks, [text |-> text, done |-> 0])
    /\ UNCHANGED <<observations, compactions, decisions, pending, strike_count,
                   window_start, balance, transactions, orders, now, procs, hist>>

\* update_task, lines 715-721; the row is named by its place in the table.
UpdateTask(i, done) ==
    /\ i \in 1..Len(tasks)
    /\ tasks' = [tasks EXCEPT ![i].done = IF done THEN 1 ELSE 0]
    /\ UNCHANGED <<observations, compactions, decisions, pending, strike_count,
                   window_start, balance, transactions, orders, now, procs, hist>>

\* delete_task, lines 724-730.
DeleteTask(i) ==
    /\ i \in 1..Len(tasks)
    /\ tasks' = [j \in 1..(Len(tasks) - 1) |-> IF j < i THEN tasks[j] ELSE tasks[j + 1]]
    /\ UNCHANGED <<observations, compactions, decisions, pending, strike_count,
                   window_start, balance, transactions, orders, now, procs, hist>>

\* observe, lines 737-824: the Observer agent stores what the oracle described.
Observe ==
    /\ Len(observations) < MaxObservations
    /\ observations' = Append(observations, [timestamp |-> now])
    /\ UNCHANGED <<tasks, compactions, decisions, pending, strike_count,
                   window_start, balance, transactions, orders, now, procs, hist>>

\* Time passes.
Tick ==
    /\ now < MaxTime
    /\ now' = now + 1
    /\ UNCHANGED <<db, procs, hist>>

(***************************************************************************)
(* compact (POST /api/compact), lines 831-942                              *)
(***************************************************************************)
\* Lines 844-852: the observations with timestamp > now - 30 minutes.
InWindow == SelectSeq(observations, LAMBDA o : o.timestamp > now - CompactionWindow)

\* A failure that applies the forgiveness before it answers.
C_NoObservationsForgives ==
    /\ cpc = "idle"
    /\ InWindow = <<>>
    /\ cpc' = "failed"
    /\ strike_count' = 0
    /\ window_start' = now
    /\ UNCHANGED <<tasks, observations, compactions, decisions, pending, balance,
                   transactions, orders, now, mpc, mloc, cloc, apc, aloc, ppc, ploc, hist>>

\* Lines 855-856: no observation in the window: HTTP 400.
C_NoObservations ==
    /\ cpc = "idle"
    /\ InWindow = <<>>
    /\ cpc' = "failed"
    /\ UNCHANGED <<db, now, mpc, mloc, cloc, apc, aloc, ppc, ploc, hist>>

\* Lines 844-870: the window is read and the summary is asked for.
C_Start ==
    /\ cpc = "idle"
    /\ InWindow # <<>>
    /\ Len(compactions) < MaxCompactions
    /\ cloc' = [cloc EXCEPT !.n_obs = Len(InWindow),
                            !.period_start = InWindow[1].timestamp,
                            !.period_end = InWindow[Len(InWindow)].timestamp]
    /\ cpc' = "summarize"
    /\ UNCHANGED <<db, now, mpc, mloc, apc, aloc, ppc, ploc, hist>>

\* Lines 872-904: the oracle answers; INSERT INTO compactions, commit.
C_Summarize ==
    /\ cpc = "summarize"
    /\ compactions' = Append(compactions,
            [timestamp |-> now, period_start |-> cloc.period_start,
             period_end |-> cloc.period_end, observation_count |-> cloc.n_obs])
    /\ cpc' = "read_strike"
    /\ UNCHANGED <<tasks, observations, decisions, pending, strike_count, window_start,
                   balance, transactions, orders, now, mpc, mloc, cloc, apc, aloc, ppc, ploc, hist>>

\* Line 872: the oracle call raises: the request fails before anything was written.
C_OracleFail ==
    /\ cpc = "summarize"
    /\ cpc' = "failed"
    /\ cloc' = CLocInit
    /\ UNCHANGED <<db, now, mpc, mloc, apc, aloc, ppc, ploc, hist>>

\* Lines 911-912: SELECT strike_count.
C_ReadStrike ==
    /\ cpc = "read_strike"
    /\ cloc' = [cloc EXCEPT !.current_strikes = strike_count]
    /\ cpc' = "evaluate"
    /\ UNCHANGED <<db, now, mpc, mloc, apc, aloc, ppc, ploc, hist>>

\* An evaluation that leaves window_start as it was.
C_EvaluateKeepsWindow ==
    /\ cpc = "evaluate"
    /\ IF Forgiven(cloc.current_strikes)
       THEN strike_count' = 0
       ELSE UNCHANGED strike_count
    /\ cpc' = "done"
    /\ UNCHANGED <<tasks, observations, compactions, decisions, pending, window_start,
                   balance, transactions, orders, now, mpc, mloc, cloc, apc, aloc, ppc, ploc, hist>>

\* Lines 914-930: RESET or KEEP, one UPDATE, commit; then the response.
C_Evaluate ==
    /\ cpc = "evaluate"
    /\ IF Forgiven(cloc.current_strikes)
       THEN strike_count' = 0
       ELSE UNCHANGED strike_count
    /\ window_start' = now
    /\ cpc' = "done"
    /\ UNCHANGED <<tasks, observations, compactions, decisions, pending, balance,
                   transactions, orders, now, mpc, mloc, cloc, apc, aloc, ppc, ploc, hist>>

\* The response (or the error) has been sent.
C_Return ==
    /\ cpc \in {"done", "failed"}
    /\ cpc' = "idle"
    /\ cloc' = CLocInit
    /\ UNCHANGED <<db, now, mpc, mloc, apc, aloc, ppc, ploc, hist>>

(***************************************************************************)
(* deduct_sbi_penalty as an endpoint (POST /api/sbi/penalty), lines 457-517*)
(***************************************************************************)
\* Lines 468, 480-485: the strike of the request is clamped, SELECT balance.
\* (init_db creates the account row and nothing deletes it: no 404 here.)
P_Read(d, n, budget) ==
    /\ ppc[d] = "idle"
    /\ debits < budget
    /\ debits' = debits + 1
    /\ ploc' = [ploc EXCEPT ![d] = [strike |-> ClampStrike(n), current_balance |-> balance]]
    /\ ppc' = [ppc EXCEPT ![d] = "write"]
    /\ UNCHANGED <<db, now, mpc, mloc, cpc, cloc, apc, aloc, runs, resets, snap, reply>>

\* A deduction that updates the account and writes no sbi_transactions row.
P_WriteUnlogged(d) ==
    /\ ppc[d] = "write"
    /\ balance' = NewBalance(ploc[d].current_balance, PenaltyFor(ploc[d].strike))
    /\ ppc' = [ppc EXCEPT ![d] = "idle"]
    /\ ploc' = [ploc EXCEPT ![d] = PLocInit]
    /\ UNCHANGED <<tasks, observations, compactions, decisions, pending, strike_count,
                   window_start, transactions, orders, now, mpc, mloc, cpc, cloc,
                   apc, aloc, hist>>

\* Lines 469-474, 486-503: UPDATE sbi_account, INSERT INTO sbi_transactions,
\* commit; then the response.
P_Write(d) ==
    /\ ppc[d] = "write"
    /\ LET amount == PenaltyFor(ploc[d].strike)
           new_balance == NewBalance(ploc[d].current_balance, amount)
       IN /\ balance' = new_balance
          /\ transactions' = Append(transactions,
                [type |-> "PENALTY", amount |-> amount,
                 balance_after |-> new_balance, strike_count |-> ploc[d].strike])
    /\ ppc' = [ppc EXCEPT ![d] = "idle"]
    /\ ploc' = [ploc EXCEPT ![d] = PLocInit]
    /\ UNCHANGED <<tasks, observations, compactions, decisions, pending, strike_count,
                   window_start, orders, now, mpc, mloc, cpc, cloc, apc, aloc, hist>>

\* Lines 489-502: the store refuses the write; the uncommitted transaction is
\* dropped and the request fails.
P_Fail(d) ==
    /\ ppc[d] = "write"
    /\ ppc' = [ppc EXCEPT ![d] = "idle"]
    /\ ploc' = [ploc EXCEPT ![d] = PLocInit]
    /\ UNCHANGED <<db, now, mpc, mloc, cpc, cloc, apc, aloc, hist>>

(***************************************************************************)
(* The rewards (POST /api/blinkit/...), lines 534-635                      *)
(***************************************************************************)
\* A selection whose middle tier starts above one half.
RewardItemAboveHalf(tasks_completed, total_tasks) ==
    IF total_tasks = 0 THEN reward_single_task
    ELSE IF tasks_completed >= total_tasks THEN reward_all_tasks
    ELSE IF 2 * tasks_completed > total_tasks THEN reward_half_tasks
    ELSE reward_single_task

\* _get_reward_item, lines 545-558 (ratio >= 1.0 and ratio >= 0.5 on integers).
RewardItem(tasks_completed, total_tasks) ==
    IF total_tasks = 0 THEN reward_single_task
    ELSE IF tasks_completed >= total_tasks THEN reward_all_tasks
    ELSE IF 2 * tasks_completed >= total_tasks THEN reward_half_tasks
    ELSE reward_single_task

\* The blinkit_orders row of lines 595-601 (the random order_id is left out).
OrderRow(tasks_completed, total_tasks) ==
    [item |-> RewardItem(tasks_completed, total_tasks), status |-> "PLACED",
     tasks_completed |-> tasks_completed, total_tasks |-> total_tasks]

\* A reward that also forgives the strikes.
RewardForgives(tasks_completed, total_tasks) ==
    /\ Len(orders) < MaxOrders
    /\ orders' = Append(orders, OrderRow(tasks_completed, total_tasks))
    /\ strike_count' = 0
    /\ UNCHANGED <<tasks, observations, compactions, decisions, pending,
                   window_start, balance, transactions, now, procs, hist>>

\* place_blinkit_reward, lines 581-625: one transaction.
Reward(tasks_completed, total_tasks) ==
    /\ Len(orders) < MaxOrders
    /\ orders' = Append(orders, OrderRow(tasks_completed, total_tasks))
    /\ UNCHANGED <<tasks, observations, compactions, decisions, pending, strike_count,
                   window_start, balance, transactions, now, procs, hist>>

\* reset_blinkit_orders, lines 628-635: one transaction.
ResetOrders ==
    /\ resets < MaxResets
    /\ resets' = resets + 1
    /\ orders' = <<>>
    /\ UNCHANGED <<tasks, observations, compactions, decisions, pending, strike_count,
                   window_start, balance, transactions, now, procs, runs, snap, reply,
                   debits>>

(***************************************************************************)
(* assess_task_completion (POST /api/assess-task-completion), 1427-1556    *)
(***************************************************************************)
\* str.strip(): the leading and the trailing whitespace is dropped.
RECURSIVE LStrip(_)
LStrip(s) ==
    IF s # <<>> /\ Head(s) \in Whitespace THEN LStrip(Tail(s)) ELSE s

RECURSIVE RStrip(_)
RStrip(s) ==
    IF s # <<>> /\ s[Len(s)] \in Whitespace
    THEN RStrip(SubSeq(s, 1, Len(s) - 1)) ELSE s

\* A transcript taken as it came (what the request would be without strip()).
Verbatim(s) == s

Strip(s) == RStrip(LStrip(s))

\* The value of a decimal digit, and the digits.
DigitValue(c) ==
    CASE c = "0" -> 0 [] c = "1" -> 1 [] c = "2" -> 2 [] c = "3" -> 3
      [] c = "4" -> 4 [] c = "5" -> 5 [] c = "6" -> 6 [] c = "7" -> 7
      [] c = "8" -> 8 [] c = "9" -> 9
Digits == {"0", "1", "2", "3", "4", "5", "6", "7", "8", "9"}

\* The number a string of digits writes.
RECURSIVE Decimal(_)
Decimal(ds) ==
    IF ds = <<>> THEN 0
    ELSE 10 * Decimal(SubSeq(ds, 1, Len(ds) - 1)) + DigitValue(ds[Len(ds)])

\* int(chars) of Python on a string: whitespace around is dropped, a sign may
\* lead, digits must follow and nothing else; None stands for ValueError.
IntOfStr(chars) ==
    LET body == Strip(chars)
        signed == body # <<>> /\ Head(body) \in {"+", "-"}
        ds == IF signed THEN Tail(body) ELSE body
    IN IF ds = <<>> \/ \E k \in DOMAIN ds : ds[k] \notin Digits THEN None
       ELSE IF signed /\ Head(body) = "-" THEN Some(0 - Decimal(ds))
       ELSE Some(Decimal(ds))

\* int(num) of line 1500 on a JSON value: an integer as it is, a number with a
\* fraction truncated toward zero, a string parsed; None stands for the
\* ValueError or TypeError that line 1505 passes over.
PyInt(j) ==
    CASE j.type = "int" -> Some(j.n)
      [] j.type = "float" ->
            Some(IF j.tenths >= 0 THEN j.tenths \div 10
                 ELSE 0 - ((0 - j.tenths) \div 10))
      [] j.type = "str" -> IntOfStr(j.chars)
      [] OTHER -> None

\* The same loop without the test of line 1503: a task listed as done is
\* taken as well.
RECURSIVE ToCompleteListedDone(_, _)
ToCompleteListedDone(task_list, numbers) ==
    IF numbers = <<>> THEN <<>>
    ELSE LET n == PyInt(Head(numbers))
             idx == Get(n, 0) - 1
             rest == ToCompleteListedDone(task_list, Tail(numbers))
         IN IF n # None /\ 0 <= idx /\ idx < Len(task_list)
            THEN <<task_list[idx + 1].text>> \o rest
            ELSE rest

\* Lines 1498-1507: the texts of the listed tasks the numbers name (1-based),
\* a number that int() refuses, is out of range or names a task listed as done
\* being passed over.
RECURSIVE ToComplete(_, _)
ToComplete(task_list, numbers) ==
    IF numbers = <<>> THEN <<>>
    ELSE LET n == PyInt(Head(numbers))
             idx == Get(n, 0) - 1
             rest == ToComplete(task_list, Tail(numbers))
         IN IF n # None /\ 0 <= idx /\ idx < Len(task_list)
               /\ ~task_list[idx + 1].done
            THEN <<task_list[idx + 1].text>> \o rest
            ELSE rest

\* UPDATE tasks SET done = 1 WHERE text = ? AND done = 0.
MarkExact(ts, text) ==
    [i \in 1..Len(ts) |->
        IF ts[i].text = text /\ ts[i].done = 0
        THEN [ts[i] EXCEPT !.done = 1] ELSE ts[i]]

\* The loop of lines 1514-1519 over tasks_to_complete.
RECURSIVE MarkAllExact(_, _)
MarkAllExact(ts, texts) ==
    IF texts = <<>> THEN ts
    ELSE MarkAllExact(MarkExact(ts, Head(texts)), Tail(texts))

\* Lines 1432-1437: nothing is left of the transcript once stripped: the answer
\* is given at once.
A_Blank(task_list, transcript) ==
    /\ apc = "idle"
    /\ Strip(transcript) = <<>>
    /\ apc' = "done"
    /\ aloc' = [ALocInit EXCEPT !.transcript = transcript,
                                !.task_list = task_list,
                                !.is_compliant = FALSE,
                                !.compliance_message = "No response detected"]
    /\ UNCHANGED <<db, now, mpc, mloc, cpc, cloc, ppc, ploc, hist>>

\* Lines 1430, 1439-1468: the request names its task list; the oracle is asked.
A_Start(task_list, transcript) ==
    /\ apc = "idle"
    /\ Strip(transcript) # <<>>
    /\ Len(orders) < MaxOrders
    /\ apc' = "oracle"
    /\ aloc' = [ALocInit EXCEPT !.transcript = transcript, !.task_list = task_list]
    /\ UNCHANGED <<db, now, mpc, mloc, cpc, cloc, ppc, ploc, hist>>

\* The same step were line 1526 missing: the oracle's is_compliant is kept
\* though tasks were marked.
A_JudgeTrusts(v) ==
    /\ apc = "oracle"
    /\ LET tasks_to_complete ==
               ToComplete(aloc.task_list, Get(v.completed_task_numbers, <<>>))
           is_compliant == Get(v.is_compliant, TRUE)
           pending_tasks == SelectSeq(aloc.task_list, LAMBDA t : ~t.done)
       IN /\ tasks' = MarkAllExact(tasks, tasks_to_complete)
          /\ aloc' = [aloc EXCEPT
                        !.result = Some(v),
                        !.tasks_to_complete = tasks_to_complete,
                        !.is_compliant = is_compliant,
                        !.compliance_message =
                            IF tasks_to_complete # <<>> THEN "Completed"
                            ELSE IF ~is_compliant /\ Len(pending_tasks) > 0
                                 THEN "No progress reported on pending tasks"
                                 ELSE "Response acknowledged"]
          /\ apc' = IF tasks_to_complete # <<>> THEN "reward" ELSE "done"
    /\ UNCHANGED <<observations, compactions, decisions, pending, strike_count,
                   window_start, balance, transactions, orders, now,
                   mpc, mloc, cpc, cloc, ppc, ploc, hist>>

\* Lines 1469-1550: the oracle answers v; the tasks its numbers name are marked
\* done by exact text, in one transaction.  The oracle's compliance_reason is
\* taken as empty, so the message is the default of its branch ("Completed"
\* stands for the count message of line 1525).
A_Judge(v) ==
    /\ apc = "oracle"
    /\ LET tasks_to_complete ==
               ToComplete(aloc.task_list, Get(v.completed_task_numbers, <<>>))
           is_compliant == Get(v.is_compliant, TRUE)
           pending_tasks == SelectSeq(aloc.task_list, LAMBDA t : ~t.done)
       IN /\ tasks' = MarkAllExact(tasks, tasks_to_complete)
          /\ aloc' = [aloc EXCEPT
                        !.result = Some(v),
                        !.tasks_to_complete = tasks_to_complete,
                        !.is_compliant = IF tasks_to_complete # <<>> THEN TRUE
                                         ELSE is_compliant,
                        !.compliance_message =
                            IF tasks_to_complete # <<>> THEN "Completed"
                            ELSE IF ~is_compliant /\ Len(pending_tasks) > 0
                                 THEN "No progress reported on pending tasks"
                                 ELSE "Response acknowledged"]
          /\ apc' = IF tasks_to_complete # <<>> THEN "reward" ELSE "done"
    /\ UNCHANGED <<observations, compactions, decisions, pending, strike_count,
                   window_start, balance, transactions, orders, now,
                   mpc, mloc, cpc, cloc, ppc, ploc, hist>>

\* Lines 1469, 1485: the oracle call raises or its content is not JSON: the
\* request fails before anything was written.
A_OracleFail ==
    /\ apc = "oracle"
    /\ apc' = "failed"
    /\ aloc' = ALocInit
    /\ UNCHANGED <<db, now, mpc, mloc, cpc, cloc, ppc, ploc, hist>>

\* Lines 1529-1538: place_blinkit_reward is called with the progress counted on
\* the task list of the request.
A_Reward ==
    /\ apc = "reward"
    /\ LET total_tasks == Len(aloc.task_list)
           completed_now == Len(aloc.tasks_to_complete)
           already_done == Len(SelectSeq(aloc.task_list, LAMBDA t : t.done))
           order == OrderRow(already_done + completed_now, total_tasks)
       IN /\ orders' = Append(orders, order)
          /\ aloc' = [aloc EXCEPT !.reward = Some(order.item)]
    /\ apc' = "done"
    /\ UNCHANGED <<tasks, observations, compactions, decisions, pending, strike_count,
                   window_start, balance, transactions, now,
                   mpc, mloc, cpc, cloc, ppc, ploc, hist>>

\* Lines 1541-1542: place_blinkit_reward raises; the exception is swallowed.
A_RewardFail ==
    /\ apc = "reward"
    /\ apc' = "done"
    /\ UNCHANGED <<db, now, mpc, mloc, cpc, cloc, aloc, ppc, ploc, hist>>

\* The response (or the error) has been sent.
A_Return ==
    /\ apc \in {"done", "failed"}
    /\ apc' = "idle"
    /\ aloc' = ALocInit
    /\ UNCHANGED <<db, now, mpc, mloc, cpc, cloc, ppc, ploc, hist>>

(***************************************************************************)
(* The system                                                              *)
(***************************************************************************)
\* The steps of a Manager invocation; `found` is what the history keeps of the
\* database at the first gate check, `verdicts` the answers the oracle may give,
\* `budget` the invocations the clients send.
Manager(p, found, verdicts, budget) ==
    \/ M_Skip(p, found)
    \/ M_Start(p, found, budget)
    \/ \E v \in verdicts : M_Judge(p, v)
    \/ M_Gate2(p)
    \/ M_ReadStrike(p)
    \/ M_Write(p)
    \/ M_DeductRead(p)
    \/ M_DeductWrite(p)
    \/ M_Decide(p)
    \/ M_Return(p)

\* The steps of a Compaction invocation.
Compaction ==
    \/ C_NoObservations
    \/ C_Start
    \/ C_Summarize
    \/ C_ReadStrike
    \/ C_Evaluate
    \/ C_Return

\* The single-transaction requests of the gate and of maintenance.
Maintenance ==
    \/ Acknowledge(FALSE)
    \/ ClearHistory
    \/ ResetAll
    \/ ResetSbi
    \/ Observe

\* Requests overlap: every step of every request may come next.
Next ==
    \/ \E p \in Managers : Manager(p, NoSnap, CoreVerdicts, MaxRuns)
    \/ Compaction
    \/ Maintenance

Spec == Init /\ [][Next]_vars

\* One worker serves POST /api/manager; every other request overlaps with it, and
\* the oracle and the store may fail.
NextSolo ==
    \/ Manager("m1", NoSnap, CoreVerdicts, MaxSoloRuns)
    \/ M_OracleFail("m1")
    \/ M_DeductFail("m1")
    \/ Compaction
    \/ C_OracleFail
    \/ Maintenance

SpecSolo == Init /\ [][NextSolo]_vars

\* No request is in progress.
Quiet == cpc = "idle" /\ \A p \in Managers : mpc[p] = "idle"
\* No request other than the one of worker p is in progress.
QuietBut(p) == cpc = "idle" /\ \A q \in Managers \ {p} : mpc[q] = "idle"
\* No Manager invocation is in progress.
NoManager == \A p \in Managers : mpc[p] = "idle"

\* One request at a time: a request takes a step only while no other request
\* is in progress; one worker serves them all.
NextSeq ==
    \/ \E p \in {"m1"} :
         \/ QuietBut(p) /\ M_Skip(p, Snapshot)
         \/ QuietBut(p) /\ M_Start(p, Snapshot, MaxSeqRuns)
         \/ QuietBut(p) /\ \E v \in Verdicts : M_Judge(p, v)
         \/ QuietBut(p) /\ M_OracleFail(p)
         \/ QuietBut(p) /\ M_Gate2(p)
         \/ QuietBut(p) /\ M_ReadStrike(p)
         \/ QuietBut(p) /\ M_Write(p)
         \/ QuietBut(p) /\ M_DeductRead(p)
         \/ QuietBut(p) /\ M_DeductWrite(p)
         \/ QuietBut(p) /\ M_DeductFail(p)
         \/ QuietBut(p) /\ M_Decide(p)
         \/ QuietBut(p) /\ M_Return(p)
    \/ NoManager /\ C_NoObservations
    \/ NoManager /\ C_Start
    \/ NoManager /\ C_Summarize
    \/ NoManager /\ C_OracleFail
    \/ NoManager /\ C_ReadStrike
    \/ NoManager /\ C_Evaluate
    \/ NoManager /\ C_Return
    \/ Quiet /\ Acknowledge(FALSE)
    \/ Quiet /\ ClearHistory
    \/ Quiet /\ ResetAll
    \/ Quiet /\ ResetSbi
    \/ Quiet /\ Observe
    \/ Quiet /\ \E text \in TaskTexts : CreateTask(text)
    \/ Quiet /\ \E i \in 1..MaxTasks, done \in BOOLEAN : UpdateTask(i, done)
    \/ Quiet /\ \E i \in 1..MaxTasks : DeleteTask(i)
    \/ Quiet /\ Tick

SpecSeq == Init /\ [][NextSeq]_vars

\* The steps of an assessment.
Assessment ==
    \/ \E task_list \in TaskLists, transcript \in Transcripts :
           A_Blank(task_list, transcript)
    \/ \E task_list \in TaskLists, transcript \in Transcripts :
           A_Start(task_list, transcript)
    \/ \E v \in Assessments : A_Judge(v)
    \/ A_OracleFail
    \/ A_Reward
    \/ A_RewardFail
    \/ A_Return

\* The requests in progress.
Busy ==
    {p \in Managers : mpc[p] # "idle"} \cup {d \in Payers : ppc[d] # "idle"}
    \cup (IF cpc # "idle" THEN {"compact"} ELSE {})
    \cup (IF apc # "idle" THEN {"assess"} ELSE {})
\* No request other than r is in progress.
Alone(r) == Busy \subseteq {r}

\* Every endpoint that writes, one request at a time: POST /api/manager, POST
\* /api/compact, POST /api/assess-task-completion, the penalties, the rewards,
\* the gate, the resets and the tasks; the oracle and the store may fail, and the
\* history keeps the response of acknowledge.  The full reset and the
\* clearing of the history may also arrive while the response of a Manager
\* invocation is on its way.
NextAll ==
    \/ \E p \in {"m1"} :
         \/ Alone(p) /\ M_Skip(p, Snapshot)
         \/ Alone(p) /\ M_Start(p, Snapshot, MaxAllRuns)
         \/ Alone(p) /\ \E v \in CoreVerdicts \cup NullReasoning : M_Judge(p, v)
         \/ Alone(p) /\ M_OracleFail(p)
         \/ Alone(p) /\ M_Gate2(p)
         \/ Alone(p) /\ M_ReadStrike(p)
         \/ Alone(p) /\ M_Write(p)
         \/ Alone(p) /\ M_DeductRead(p)
         \/ Alone(p) /\ M_DeductWrite(p)
         \/ Alone(p) /\ M_DeductFail(p)
         \/ Alone(p) /\ M_Decide(p)
         \/ Alone(p) /\ M_Return(p)
         \/ Alone(p) /\ M_Invalid(p)
    \/ Alone("compact") /\ C_NoObservations
    \/ Alone("compact") /\ C_Start
    \/ Alone("compact") /\ C_Summarize
    \/ Alone("compact") /\ C_OracleFail
    \/ Alone("compact") /\ C_ReadStrike
    \/ Alone("compact") /\ C_Evaluate
    \/ Alone("compact") /\ C_Return
    \/ Alone("assess") /\ \E task_list \in TaskLists, transcript \in Transcripts :
           A_Blank(task_list, transcript)
    \/ Alone("assess") /\ \E task_list \in TaskLists, transcript \in Transcripts :
           A_Start(task_list, transcript)
    \/ Alone("assess") /\ \E v \in Assessments : A_Judge(v)
    \/ Alone("assess") /\ A_OracleFail
    \/ Alone("assess") /\ A_Reward
    \/ Alone("assess") /\ A_RewardFail
    \/ Alone("assess") /\ A_Return
    \/ \E d \in {"d1"} :
         \/ Alone(d) /\ \E n \in Strikes : P_Read(d, n, MaxAllDebits)
         \/ Alone(d) /\ P_Write(d)
         \/ Alone(d) /\ P_Fail(d)
    \/ Busy = {} /\ \E total \in 0..MaxTasks : \E completed \in 0..total :
                        Reward(completed, total)
    \/ Busy = {} /\ ResetOrders
    \/ Busy = {} /\ Acknowledge(TRUE)
    \/ (Busy = {} \/ (Busy = {"m1"} /\ mpc["m1"] = "done")) /\ ClearHistory
    \/ (Busy = {} \/ (Busy = {"m1"} /\ mpc["m1"] = "done")) /\ ResetAll
    \/ Busy = {} /\ ResetSbi
    \/ Busy = {} /\ Observe
    \/ Busy = {} /\ \E text \in TaskTexts : CreateTask(text)
    \/ Busy = {} /\ \E i \in 1..MaxTasks, done \in BOOLEAN : UpdateTask(i, done)
    \/ Busy = {} /\ \E i \in 1..MaxTasks : DeleteTask(i)

SpecAll == Init /\ [][NextAll]_vars

\* The gate: two workers serve POST /api/manager and overlap with each other and
\* with acknowledge, and the oracle gives every kind of answer about interjections.
NextGate ==
    \/ \E p \in Managers : Manager(p, NoSnap, GateVerdicts, MaxGateRuns)
    \/ Acknowledge(FALSE)

SpecGate == Init /\ [][NextGate]_vars

\* The database after init_db() and the requests that built a tasks table.
InitBoard ==
    /\ tasks \in Boards
    /\ observations = <<>>
    /\ compactions = <<>>
    /\ decisions = <<>>
    /\ pending = <<>>
    /\ strike_count = 0
    /\ window_start = 0
    /\ balance = sbi_initial_balance
    /\ transactions = <<>>
    /\ orders = <<>>
    /\ now = 0
    /\ mpc = [p \in Managers |-> "idle"]
    /\ mloc = [p \in Managers |-> MLocInit]
    /\ cpc = "idle"
    /\ cloc = CLocInit
    /\ runs = 0
    /\ resets = 0
    /\ snap = NoSnap
    /\ apc = "idle"
    /\ aloc = ALocInit
    /\ reply = None
    /\ ppc = [d \in Payers |-> "idle"]
    /\ ploc = [d \in Payers |-> PLocInit]
    /\ debits = 0

\* The rewards: POST /api/blinkit/reward with every pair of counts, the
\* assessment of a list of up to MaxBoard tasks, and the reset of the orders,
\* overlapping; the store does not fail.
NextReward ==
    \/ \E completed \in 0..MaxCount, total \in 0..MaxCount : Reward(completed, total)
    \/ ResetOrders
    \/ \E task_list \in BoardLists, transcript \in Transcripts :
           A_Blank(task_list, transcript)
    \/ \E task_list \in BoardLists, transcript \in Transcripts :
           A_Start(task_list, transcript)
    \/ \E v \in BoardAssessments : A_Judge(v)
    \/ A_Reward
    \/ A_Return

SpecReward == InitBoard /\ [][NextReward]_vars

\* The tasks: POST /api/manager, acknowledge, the assessment and the task
\* endpoints on a tasks table of up to MaxBoard rows, and the full reset, one
\* request at a time; the oracle and the store do not fail.
NextTasks ==
    \/ \E p \in {"m1"} :
         \/ Alone(p) /\ M_Skip(p, Snapshot)
         \/ Alone(p) /\ M_Start(p, Snapshot, MaxTaskRuns)
         \/ Alone(p) /\ \E v \in MoodVerdicts : M_Judge(p, v)
         \/ Alone(p) /\ M_Gate2(p)
         \/ Alone(p) /\ M_ReadStrike(p)
         \/ Alone(p) /\ M_Write(p)
         \/ Alone(p) /\ M_DeductRead(p)
         \/ Alone(p) /\ M_DeductWrite(p)
         \/ Alone(p) /\ M_Decide(p)
         \/ Alone(p) /\ M_Return(p)
    \/ Alone("assess") /\ \E task_list \in TaskLists, transcript \in Transcripts :
           A_Blank(task_list, transcript)
    \/ Alone("assess") /\ \E task_list \in TaskLists, transcript \in Transcripts :
           A_Start(task_list, transcript)
    \/ Alone("assess") /\ \E v \in Assessments : A_Judge(v)
    \/ Alone("assess") /\ A_Reward
    \/ Alone("assess") /\ A_Return
    \/ Busy = {} /\ Acknowledge(FALSE)
    \/ Busy = {} /\ \E text \in BoardTexts : CreateTask(text)
    \/ Busy = {} /\ \E i \in 1..MaxBoard, done \in BOOLEAN : UpdateTask(i, done)
    \/ Busy = {} /\ \E i \in 1..MaxBoard : DeleteTask(i)
    \/ Busy = {} /\ ResetAll

SpecTasks == InitBoard /\ [][NextTasks]_vars

\* The indices: the assessment of a task list of up to MaxBoard entries whose
\* oracle answers with every kind of element in completed_task_numbers, and
\* the reset of the orders; the store does not fail.
NextIndex ==
    \/ \E task_list \in BoardLists, transcript \in Transcripts :
           A_Blank(task_list, transcript)
    \/ \E task_list \in BoardLists, transcript \in Transcripts :
           A_Start(task_list, transcript)
    \/ \E v \in IndexAssessments : A_Judge(v)
    \/ A_Reward
    \/ A_Return
    \/ apc = "idle" /\ ResetOrders

SpecIndex == InitBoard /\ [][NextIndex]_vars

\* The sbi_transactions rows of k requests POST /api/sbi/penalty with
\* strike_count = 3, served one after the other on a fresh account.
PriorRows(k) ==
    [i \in 1..k |->
        [type |-> "PENALTY", amount |-> penalty_strike_3,
         balance_after |-> Max(0, sbi_initial_balance - i * penalty_strike_3),
         strike_count |-> StrikeCap]]

\* The database after init_db(), or after MaxPrior such requests on top of it.
InitLedger ==
    /\ \E k \in {0, MaxPrior} :
          /\ transactions = PriorRows(k)
          /\ balance = Max(0, sbi_initial_balance - k * penalty_strike_3)
    /\ tasks = <<>>
    /\ observations = <<>>
    /\ compactions = <<>>
    /\ decisions = <<>>
    /\ pending = <<>>
    /\ strike_count = 0
    /\ window_start = 0
    /\ orders = <<>>
    /\ now = 0
    /\ mpc = [p \in Managers |-> "idle"]
    /\ mloc = [p \in Managers |-> MLocInit]
    /\ cpc = "idle"
    /\ cloc = CLocInit
    /\ runs = 0
    /\ resets = 0
    /\ snap = NoSnap
    /\ apc = "idle"
    /\ aloc = ALocInit
    /\ reply = None
    /\ ppc = [d \in Payers |-> "idle"]
    /\ ploc = [d \in Payers |-> PLocInit]
    /\ debits = 0

\* The account and its ledger: two workers serve POST /api/sbi/penalty and one
\* serves POST /api/manager, all overlapping with one another, with acknowledge
\* and with the resets of the account; the store may fail.
NextLedger ==
    \/ \E d \in Payers :
         \/ \E n \in Strikes : P_Read(d, n, MaxLedgerDebits)
         \/ P_Write(d)
         \/ P_Fail(d)
    \/ Manager("m1", NoSnap, CoreVerdicts, MaxLedgerRuns)
    \/ M_DeductFail("m1")
    \/ Acknowledge(FALSE)
    \/ ResetSbi
    \/ ResetAll

SpecLedger == InitLedger /\ [][NextLedger]_vars

(***************************************************************************)
(* Properties                                                              *)
(***************************************************************************)
\* The rows of a pending_interjections table that are not acknowledged.
Open(rows) == {i \in DOMAIN rows : rows[i].acknowledged = 0}
\* The last row of a non-empty table.
Last(rows) == rows[Len(rows)]
\* `after` is `before` plus exactly one row at its end.
OneMore(before, after) ==
    /\ Len(after) = Len(before) + 1
    /\ SubSeq(after, 1, Len(before)) = before
\* The oracle's answer to worker p asks for an interjection with a non-empty message.
AsksInterjection(p) ==
    /\ mloc[p].result # None
    /\ mloc[p].result[1].interjection = Some(TRUE)
    /\ mloc[p].result[1].interjection_message \notin {None, Some("")}

\* C1: in every reachable state, whatever the interleaving of overlapping Manager
\* invocations with acknowledge, Compaction and the resets, at most one row of
\* pending_interjections has acknowledged = 0.
C1_AtMostOneUnacknowledged == Cardinality(Open(pending)) <= 1

\* C2: strike_count is in 0..3 in every reachable state, whatever the interleaving
\* of Manager, Compaction, acknowledge, clear-history and full reset.
C2_StrikeInRange == strike_count \in 0..3

\* A fourth interjection in a row was opened, with no forgiveness between them.
C2_Witness ==
    /\ strike_count = 3
    /\ resets = 0
    /\ compactions = <<>>
    /\ Cardinality({i \in DOMAIN decisions : decisions[i].interjection}) = 4

\* C3: a Manager run, not overlapped by another request, that starts with no
\* unacknowledged interjection and strike_count = s, whose verdict has
\* interjection = true and a non-empty message and whose penalty call returns, ends
\* with strike_count = min(3, s+1), exactly one new unacknowledged
\* pending_interjections row carrying that message, exactly one new PENALTY
\* transaction of the tier amount of min(3, s+1), and one new manager_decisions row
\* with interjection = true.
C3_EscalationRun ==
    \A p \in Managers :
        ( /\ mpc[p] = "done"
          /\ Open(snap.pending) = {}
          /\ AsksInterjection(p)
          /\ mloc[p].penalty_amount # None )
        => LET s == snap.strike_count
               new == IF s + 1 < 3 THEN s + 1 ELSE 3
               tier == IF new = 1 THEN penalty_strike_1
                       ELSE IF new = 2 THEN penalty_strike_2 ELSE penalty_strike_3
           IN /\ strike_count = new
              /\ OneMore(snap.pending, pending)
              /\ Last(pending) = [message |-> mloc[p].result[1].interjection_message[1],
                                  acknowledged |-> 0]
              /\ OneMore(snap.transactions, transactions)
              /\ Last(transactions).type = "PENALTY"
              /\ Last(transactions).amount = tier
              /\ OneMore(snap.decisions, decisions)
              /\ Last(decisions).interjection = TRUE

\* An escalating run that began at the cap has returned.
C3_Witness ==
    \E p \in Managers :
        /\ mpc[p] = "done"
        /\ AsksInterjection(p)
        /\ snap.strike_count = 3
        /\ strike_count = 3
        /\ mloc[p].penalty_amount = Some(penalty_strike_3)
        /\ Len(pending) = Len(snap.pending) + 1

\* C4: a Manager invocation whose first gate check finds an unacknowledged
\* interjection goes straight to its return, inserts no pending_interjections row,
\* leaves strike_count, the balance, the transactions and every task unchanged, and
\* returns is_productive = true and interjection = false.
C4_SkipIsNeutral ==
    [][\A p \in Managers :
          /\ (mpc[p] = "idle" /\ mpc'[p] # "idle" /\ Open(pending) # {})
             => /\ mpc'[p] = "done"
                /\ UNCHANGED <<pending, strike_count, balance, transactions, tasks>>
                /\ ResponseOf(mloc'[p]).is_productive = TRUE
                /\ ResponseOf(mloc'[p]).interjection = FALSE
          /\ (mpc[p] = "done" /\ mpc'[p] = "idle")
             => UNCHANGED <<pending, strike_count, balance, transactions, tasks>>
      ]_vars

\* A skipped invocation has returned, with strikes, transactions and tasks in place.
C4_Witness ==
    \E p \in Managers :
        /\ mpc[p] = "done"
        /\ mloc[p].skipped
        /\ Open(pending) # {}
        /\ strike_count > 0
        /\ transactions # <<>>
        /\ tasks # <<>>

C6_RaiseByOneWithInterjection ==
    [][strike_count' > strike_count
          => /\ strike_count' = strike_count + 1
             /\ OneMore(pending, pending')
             /\ Last(pending').acknowledged = 0
      ]_vars

\* C7: no Manager write of the strike row lowers strike_count, whatever other
\* Manager invocations, acknowledge and Compaction did between its read and its
\* write (no maintenance request was served).
C7_ManagerNeverLowers ==
    [][\A p \in Managers :
          (mpc[p] = "write" /\ mpc'[p] # "write" /\ resets = 0)
              => strike_count' >= strike_count
      ]_vars

C9_CompactionForgives ==
    (cpc = "done" /\ cloc.current_strikes <= 3)
        => /\ strike_count = 0
           /\ window_start = now
           /\ compactions # <<>>
           /\ Last(compactions).timestamp = now

\* A run entered with two strikes, later than the window began, has ended.
C9_Witness ==
    /\ cpc = "done"
    /\ cloc.current_strikes = 2
    /\ strike_count = 0
    /\ resets = 0
    /\ now > 0
    /\ window_start = now

\* C10 as stated: a Compaction run entered with strike_count at the cap does not
\* reset strike_count to 0.
C10_CapNotForgiven ==
    (cpc = "done" /\ cloc.current_strikes = StrikeCap) => strike_count # 0

\* C10: a Compaction run entered with strike_count at the cap resets it to 0 like
\* any other run: the test is strike_count <= 3 and the cap keeps it from failing.
C10_CapForgiven ==
    (cpc = "done" /\ cloc.current_strikes = StrikeCap) => strike_count = 0

\* A run entered at the cap has ended.
C10_Witness ==
    /\ cpc = "done"
    /\ cloc.current_strikes = StrikeCap
    /\ strike_count = 0

\* The Manager invocation of worker p has escalated since its first gate check,
\* and no PENALTY row has been written since: its deduction failed.
EscalatedUnpaid(p) ==
    /\ ~mloc[p].skipped
    /\ AsksInterjection(p)
    /\ Len(pending) = Len(snap.pending) + 1
    /\ transactions = snap.transactions

\* C14: when the penalty deduction of an escalation fails, the failure is
\* swallowed: the step that fails leads to the write of the decision and changes
\* nothing in the database, and once the invocation has completed the strike
\* increment and the new unacknowledged row are committed, the last
\* manager_decisions row has interjection = true, and the penalty amount and the
\* balance-after of the response are null.  (One request at a time.)
C14_DeductionFailureSwallowed ==
    /\ [](\A p \in Managers :
            (mpc[p] = "done" /\ EscalatedUnpaid(p)) =>
                /\ strike_count = Min(StrikeCap, snap.strike_count + 1)
                /\ OneMore(snap.pending, pending)
                /\ Last(pending).acknowledged = 0
                /\ balance = snap.balance
                /\ OneMore(snap.decisions, decisions)
                /\ Last(decisions).interjection = TRUE
                /\ Response(p).interjection = TRUE
                /\ Response(p).penalty_amount = None
                /\ Response(p).balance_after = None)
    /\ [][\A p \in Managers :
            ( /\ mpc[p] \in {"deduct_read", "deduct_write"}
              /\ mpc'[p] \notin {"deduct_read", "deduct_write"}
              /\ transactions' = transactions ) =>
                /\ mpc'[p] = "decide"
                /\ db' = db
                /\ mloc'[p].interjection = TRUE
                /\ mloc'[p].penalty_amount = None
                /\ mloc'[p].balance_after = None]_vars

C14_Witness ==
    /\ mpc["m1"] = "done"
    /\ EscalatedUnpaid("m1")
    /\ Response("m1").penalty_amount = None
    /\ Last(decisions).interjection = TRUE
    /\ strike_count = 2

\* The JSON object {} : the oracle's verdict with no field at all.
NoFields ==
    [is_productive |-> None, interjection |-> None,
     interjection_message |-> None, tasks_to_complete |-> None, reasoning |-> None]

\* C16: a verdict that omits every field reads as is_productive = true,
\* interjection = false, tasks_to_complete = []: the invocation that got it marks
\* no task done, changes neither the strike row, the pending rows, the account
\* nor the ledger, and appends one manager_decisions row with is_productive =
\* true, interjection = false and no task; its response says the same.
\* (One request at a time.)
C16_NoFieldsIsNeutral ==
    \A p \in Managers :
        (mloc[p].result = Some(NoFields)) =>
            /\ mloc[p].is_productive = TRUE
            /\ mloc[p].interjection = FALSE
            /\ mloc[p].tasks_updated = <<>>
            /\ tasks = snap.tasks
            /\ strike_count = snap.strike_count
            /\ pending = snap.pending
            /\ balance = snap.balance
            /\ transactions = snap.transactions
            /\ mpc[p] \in {"decide", "done"}
            /\ mpc[p] = "decide" => decisions = snap.decisions
            /\ mpc[p] = "done" =>
                    /\ OneMore(snap.decisions, decisions)
                    /\ Last(decisions).is_productive = TRUE
                    /\ Last(decisions).interjection = FALSE
                    /\ Last(decisions).tasks_updated = <<>>
                    /\ Response(p).is_productive = TRUE
                    /\ Response(p).interjection = FALSE
                    /\ Response(p).penalty_amount = None

C16_Witness ==
    /\ mpc["m1"] = "done"
    /\ mloc["m1"].result = Some(NoFields)
    /\ \E i \in DOMAIN tasks : tasks[i].done = 0
    /\ strike_count = 1
    /\ Len(pending) = 1
    /\ Len(decisions) = 2
    /\ Last(decisions).is_productive = TRUE

\* The rows of a pending_interjections table, every one marked acknowledged.
AllAcknowledged(rows) == [i \in DOMAIN rows |-> [rows[i] EXCEPT !.acknowledged = 1]]

\* C11: a step that changes rows of pending_interjections without adding or
\* deleting one (acknowledge is the only request that does) marks every row
\* acknowledged, so that no row is unacknowledged right after it; its response
\* carries the current strike_count; and it leaves strike_count, window_start,
\* the account, the ledger and the tasks as they were.
C11_AcknowledgeMarksAndReports ==
    [][(Len(pending') = Len(pending) /\ pending' # pending) =>
            /\ pending' = AllAcknowledged(pending)
            /\ Open(pending') = {}
            /\ reply' # None
            /\ reply'[1].response = [status |-> "acknowledged", strike_count |-> strike_count]
            /\ reply'[1].marked = Cardinality(Open(pending))
            /\ strike_count' = strike_count
            /\ window_start' = window_start
            /\ balance' = balance
            /\ transactions' = transactions
            /\ tasks' = tasks
            /\ orders' = orders
            /\ decisions' = decisions]_vars

C11_Witness ==
    /\ Busy = {}
    /\ Len(pending) = 2
    /\ Open(pending) = {}
    /\ strike_count = 2
    /\ reply # None
    /\ reply[1].response = [status |-> "acknowledged", strike_count |-> 2]
    /\ reply[1].marked = 1
    /\ balance < sbi_initial_balance
    /\ Len(transactions) = 2
    /\ tasks # <<>>

\* C12: acknowledge can always be served; served while no row is unacknowledged
\* it leaves the whole database unchanged; and the state it leaves is one a
\* second acknowledge maps to itself, response included.
C12_AcknowledgeIdempotent ==
    /\ [](ENABLED Acknowledge(TRUE))
    /\ [][Acknowledge(TRUE) =>
            /\ Open(pending) = {} => db' = db
            /\ AllAcknowledged(pending') = pending'
            /\ reply' # None
            /\ reply'[1].response = [status |-> "acknowledged", strike_count |-> strike_count']
            /\ Len(pending') = Len(pending)]_vars

C12_Witness ==
    /\ Busy = {}
    /\ Len(pending) = 1
    /\ Open(pending) = {}
    /\ strike_count = 1
    /\ reply # None
    /\ reply[1].response = [status |-> "acknowledged", strike_count |-> 1]
    /\ reply[1].marked = 0

\* C15 (as stated): a Manager, Compaction or Assessment invocation that ends in
\* failure because of what the oracle did (the call raised, the content was not
\* JSON, or the JSON object was malformed) has committed nothing: the database is
\* as the invocation found it.  (One request at a time.)
C15_OracleFailureCommitsNothing ==
    [][/\ \A p \in Managers :
            ( /\ mpc'[p] = "idle"
              /\ \/ mpc[p] = "oracle"
                 \/ mpc[p] = "done" /\ mloc[p].reasoning = None ) =>
                /\ db' = db
                /\ tasks = snap.tasks
                /\ strike_count = snap.strike_count
                /\ pending = snap.pending
                /\ balance = snap.balance
                /\ transactions = snap.transactions
                /\ decisions = snap.decisions
       /\ (cpc \in {"idle", "summarize"} /\ cpc' \in {"summarize", "failed"}) => db' = db
       /\ (apc \in {"idle", "oracle"} /\ apc' \in {"oracle", "failed"}) => db' = db]_vars

\* A step of reset_sbi_account or reset_all_data, as the account sees it.
AccountReset ==
    /\ resets' = resets + 1
    /\ balance' = sbi_initial_balance
    /\ transactions' = <<>>

\* C17 (as stated): the three penalties grow with the tier, and every deduction
\* (a step that appends a row to sbi_transactions) at tier t, made on an account
\* whose balance is b, records the full amount penalty(t) and leaves the balance
\* at max(0, b - penalty(t)).
C17_DeductionSubtractsPenalty ==
    [][OneMore(transactions, transactions') =>
            LET row == Last(transactions')
            IN /\ penalty_strike_1 < penalty_strike_2
               /\ penalty_strike_2 < penalty_strike_3
               /\ row.strike_count \in 1..StrikeCap
               /\ row.amount = PenaltyFor(row.strike_count)
               /\ balance' = Max(0, balance - row.amount)]_vars

\* C18: the balance of the account is never negative, whatever the penalty
\* requests, the Manager escalations and the resets, and however they overlap.
C18_BalanceNeverNegative == balance >= 0

\* A deduction larger than what was left has emptied the account.
C18_Witness ==
    /\ Len(transactions) >= 2
    /\ balance = 0
    /\ Last(transactions).balance_after = 0
    /\ transactions[Len(transactions) - 1].balance_after > 0
    /\ transactions[Len(transactions) - 1].balance_after < Last(transactions).amount

\* C19: the account and its ledger change together.  Apart from the resets, a
\* step changes the balance or the ledger only by appending exactly one PENALTY
\* row, and right after that step the balance is the balance_after of that row;
\* a row is never appended without the account being set, nor the account
\* changed without a row, also while deductions overlap.
C19_DeductionIsOneCommit ==
    [][(transactions' # transactions \/ balance' # balance) =>
            \/ AccountReset
            \/ /\ OneMore(transactions, transactions')
               /\ Last(transactions').type = "PENALTY"
               /\ balance' = Last(transactions').balance_after]_vars

\* Two deductions that overlapped have both been committed.
C19_Witness ==
    /\ Len(transactions) = 2
    /\ transactions[1].balance_after = transactions[2].balance_after
    /\ transactions[1].balance_after = sbi_initial_balance - penalty_strike_1
    /\ balance = Last(transactions).balance_after
    /\ \A d \in Payers : ppc[d] = "idle"

\* C20 (as stated): the balance is changed only by penalty debits, which append
\* their row and never raise it, and by resets: a step that is not a reset never
\* raises the balance.
C20_BalanceOnlyFallsBetweenResets ==
    [][balance' # balance =>
            \/ AccountReset
            \/ /\ OneMore(transactions, transactions')
               /\ balance' < balance]_vars

\* What an escalation writes to.
Escalated == <<strike_count, pending, balance, transactions>>

\* C13: a Manager invocation writes to the strike row, the pending rows, the
\* account or the ledger only in the write of its escalation or in the deduction
\* that follows it, and it gets there only through a second gate check that saw
\* no unacknowledged row, with a verdict that has interjection = true and a
\* non-empty message.  An invocation whose second gate check sees an
\* unacknowledged row drops its interjection and goes on to its decision, and an
\* invocation whose verdict lacks the request or the message never comes to the
\* second check; neither changes any of the four.
C13_EscalatesOnlyWhenAllThree ==
    [][\A p \in Managers : mpc'[p] # mpc[p] =>
            /\ Escalated' # Escalated =>
                    /\ mpc[p] \in {"write", "deduct_write"}
                    /\ AsksInterjection(p)
            /\ mpc'[p] = "gate2" => (mpc[p] = "oracle" /\ AsksInterjection(p)')
            /\ mpc'[p] = "read_strike" =>
                    /\ mpc[p] = "gate2"
                    /\ Open(pending) = {}
                    /\ AsksInterjection(p)
            /\ mpc'[p] = "write" => mpc[p] = "read_strike"
            /\ mpc'[p] = "deduct_read" => mpc[p] = "write"
            /\ mpc'[p] = "deduct_write" => mpc[p] = "deduct_read"
            /\ (mpc[p] = "gate2" /\ Open(pending) # {}) =>
                    /\ mpc'[p] = "decide"
                    /\ mloc'[p].interjection = FALSE
                    /\ Escalated' = Escalated
            /\ (mpc[p] = "oracle" /\ ~AsksInterjection(p)') =>
                    /\ mpc'[p] = "decide"
                    /\ Escalated' = Escalated]_vars

\* The second gate check of a worker has seen the row of the other and dropped
\* an interjection its verdict asked for.
C13_Witness ==
    /\ mpc["m2"] = "decide"
    /\ AsksInterjection("m2")
    /\ mloc["m2"].interjection = FALSE
    /\ Open(pending) # {}
    /\ Len(pending) = 1
    /\ strike_count = 1
    /\ Len(transactions) <= 1

\* The tier of the spec for `completed` of `total`: base, mid or top.
Tier(completed, total) ==
    IF total = 0 THEN "base"
    ELSE IF completed >= total THEN "top"
    ELSE IF 2 * completed >= total THEN "mid"
    ELSE "base"

\* The tier an item of CONFIG stands for.
TierOf(item) ==
    IF item = reward_all_tasks THEN "top"
    ELSE IF item = reward_half_tasks THEN "mid"
    ELSE "base"

\* C21: the item of every reward order is the one its counts select: base when
\* total = 0, else top when completed/total >= 1, mid when 1/2 <= completed/total
\* < 1, base below 1/2; the same counts always give the same item, and (1,4) gives
\* base, (2,4) mid, (4,4) top, (0,0) base.
C21_RewardTier ==
    /\ reward_single_task # reward_half_tasks
    /\ reward_half_tasks # reward_all_tasks
    /\ reward_single_task # reward_all_tasks
    /\ \A i \in DOMAIN orders :
          LET row == orders[i]
          IN /\ TierOf(row.item) = Tier(row.tasks_completed, row.total_tasks)
             /\ (row.tasks_completed = 1 /\ row.total_tasks = 4) => row.item = reward_single_task
             /\ (row.tasks_completed = 2 /\ row.total_tasks = 4) => row.item = reward_half_tasks
             /\ (row.tasks_completed = 4 /\ row.total_tasks = 4) => row.item = reward_all_tasks
             /\ (row.tasks_completed = 0 /\ row.total_tasks = 0) => row.item = reward_single_task

C21_Witness ==
    /\ Len(orders) = 1
    /\ orders[1].tasks_completed = 2
    /\ orders[1].total_tasks = 4
    /\ orders[1].item = reward_half_tasks

\* The entries of a task list that are listed as done.
ListedDone(task_list) == Len(SelectSeq(task_list, LAMBDA t : t.done))

\* C22 (as stated): an assessment goes on to issue a reward order exactly when
\* it has marked at least one task done in the tasks table; the order it issues
\* is one row, whose counts are (tasks listed as done + tasks newly matched) of
\* (length of the list) and whose tier is the one these counts select; and an
\* assessment that marked nothing ends without an order of its own.
C22_RewardIffTaskMarked ==
    [][/\ (apc = "oracle" /\ apc' # apc) =>
            /\ orders' = orders
            /\ apc' = "reward" <=> tasks' # tasks
            /\ apc' = "done" <=> tasks' = tasks
       /\ (apc = "reward" /\ apc' # apc) =>
            /\ apc' = "done"
            /\ OneMore(orders, orders')
            /\ Last(orders').tasks_completed =
                    ListedDone(aloc.task_list) + Len(aloc.tasks_to_complete)
            /\ Last(orders').total_tasks = Len(aloc.task_list)
            /\ TierOf(Last(orders').item) =
                    Tier(Last(orders').tasks_completed, Last(orders').total_tasks)]_vars

\* C23: a step that places a reward order (a row is added to blinkit_orders, by
\* POST /api/blinkit/reward or by an assessment) leaves the balance, the ledger,
\* strike_count and the pending rows as they were.
C23_RewardLeavesPenaltyChannel ==
    [][Len(orders') > Len(orders) =>
            /\ OneMore(orders, orders')
            /\ balance' = balance
            /\ transactions' = transactions
            /\ strike_count' = strike_count
            /\ pending' = pending]_vars

\* An assessment has placed its order on an account that has paid a penalty.
C23_Witness ==
    /\ apc = "done"
    /\ aloc.reward # None
    /\ Len(orders) = 1
    /\ strike_count = 1
    /\ Len(pending) = 1
    /\ Len(transactions) = 1
    /\ balance = sbi_initial_balance - penalty_strike_1

\* A transcript of which strip() leaves nothing.
OnlyWhitespace(transcript) ==
    \A i \in DOMAIN transcript : transcript[i] \in {" ", "\t"}

\* C24: an assessment whose transcript is empty or of whitespace only answers at
\* once, without asking the oracle: is_compliant is false, the message is the
\* fixed "No response detected", tasks_to_complete is empty, no reward is
\* reported, and no table or singleton of the database changes.
C24_BlankTranscriptAnswersAtOnce ==
    [][(apc = "idle" /\ apc' # "idle" /\ OnlyWhitespace(aloc'.transcript))
          => /\ apc' = "done"
             /\ aloc'.is_compliant = FALSE
             /\ aloc'.compliance_message = "No response detected"
             /\ aloc'.tasks_to_complete = <<>>
             /\ aloc'.reward = None
             /\ db' = db]_vars

\* A whitespace-only transcript was answered while the list named a pending
\* task that the tasks table holds as not done.
C24_Witness ==
    /\ apc = "done"
    /\ aloc.transcript # <<>>
    /\ OnlyWhitespace(aloc.transcript)
    /\ aloc.is_compliant = FALSE
    /\ \E i \in DOMAIN aloc.task_list, j \in DOMAIN tasks :
          /\ ~aloc.task_list[i].done
          /\ tasks[j].text = aloc.task_list[i].text
          /\ tasks[j].done = 0

\* C25: once the oracle has answered an assessment, is_compliant is true when at
\* least one task was marked for completion, whatever the oracle said; when
\* none was marked it is the oracle's is_compliant, true when the oracle left
\* it out.
C25_CompliantWhenTaskMarked ==
    (apc \in {"reward", "done"} /\ aloc.result # None)
        => aloc.is_compliant =
              (\/ aloc.tasks_to_complete # <<>>
               \/ Get(aloc.result[1].is_compliant, TRUE))

\* The oracle called the answer not compliant and named a pending task: the
\* task was marked and the answer is reported compliant.
C25_Witness ==
    /\ apc = "done"
    /\ aloc.result # None
    /\ aloc.result[1].is_compliant = Some(FALSE)
    /\ aloc.tasks_to_complete # <<>>
    /\ aloc.is_compliant
    /\ \E j \in DOMAIN tasks :
          tasks[j].text = aloc.tasks_to_complete[1] /\ tasks[j].done = 1

\* The oracle called the answer not compliant and no task was marked: the
\* answer is reported not compliant.
C25_WitnessNoneMarked ==
    /\ apc = "done"
    /\ aloc.result # None
    /\ aloc.result[1].is_compliant = Some(FALSE)
    /\ aloc.tasks_to_complete = <<>>
    /\ ~aloc.is_compliant

\* C27: a full reset, taken in any reachable state, leaves every table empty
\* (tasks, observations, compactions, manager decisions, pending interjections,
\* transactions, reward orders), strike_count 0 and the balance at its initial
\* value.
C27_FullResetEmptiesEverything ==
    [][ResetAll
          => /\ tasks' = <<>>
             /\ observations' = <<>>
             /\ compactions' = <<>>
             /\ decisions' = <<>>
             /\ pending' = <<>>
             /\ transactions' = <<>>
             /\ orders' = <<>>
             /\ strike_count' = 0
             /\ balance' = sbi_initial_balance]_vars

\* A Manager invocation found an interjection row and a penalty in the
\* database; the one reset taken before its response was sent removed both,
\* which only the full reset does, and nothing is left in any table.
C27_Witness ==
    /\ resets = 1
    /\ mpc["m1"] = "done"
    /\ snap # NoSnap
    /\ snap.pending # <<>>
    /\ snap.transactions # <<>>
    /\ snap.strike_count > 0
    /\ snap.balance < sbi_initial_balance
    /\ tasks = <<>> /\ observations = <<>> /\ compactions = <<>>
    /\ decisions = <<>> /\ pending = <<>> /\ transactions = <<>> /\ orders = <<>>
    /\ strike_count = 0
    /\ balance = sbi_initial_balance

\* Worker p asked for an interjection and its second gate check dropped it.
Blocked(p) ==
    /\ AsksInterjection(p)
    /\ ~mloc[p].interjection

\* C29: when the second gate check of a Manager invocation that passed the first
\* finds an unacknowledged interjection, opening is a no-op: the step writes
\* nothing, and the invocation goes on to insert its ManagerDecision row with
\* interjection false and a null message, without inserting a pending row,
\* raising strike_count or taking a penalty; its response carries strike 0 and
\* no penalty.
C29_BlockedInterjectionIsNoOp ==
    [][\A p \in Managers :
          /\ (mpc[p] = "gate2" /\ mpc'[p] # "gate2" /\ Open(pending) # {}) =>
                /\ mpc'[p] = "decide"
                /\ db' = db
                /\ mloc'[p].interjection = FALSE
                /\ mloc'[p].interjection_message = None
          /\ (mpc[p] = "decide" /\ mpc'[p] # "decide" /\ Blocked(p)) =>
                /\ mpc'[p] = "done"
                /\ OneMore(decisions, decisions')
                /\ Last(decisions').interjection = FALSE
                /\ Last(decisions').interjection_message = None
                /\ pending' = pending
                /\ strike_count' = strike_count
                /\ balance' = balance
                /\ transactions' = transactions
                /\ mloc'[p].strike_count = 0
                /\ mloc'[p].penalty_amount = None]_vars

\* Worker m2 passed the first gate check, was blocked at the second by the row
\* of m1 and has recorded its decision; the one pending row, strike and penalty
\* are those of m1.
C29_Witness ==
    /\ mpc["m2"] = "done"
    /\ ~mloc["m2"].skipped
    /\ Blocked("m2")
    /\ mpc["m1"] = "idle"
    /\ Len(decisions) = 2
    /\ Last(decisions).interjection = FALSE
    /\ Last(decisions).interjection_message = None
    /\ Len(pending) = 1
    /\ Open(pending) # {}
    /\ strike_count = 1
    /\ Len(transactions) = 1

\* C26: the done of a task never goes from true back to false, whatever the
\* Manager invocations, the assessments and the task requests do; only the full
\* reset, which empties the table, is excepted.  (A step that changes the number
\* of rows creates or deletes a task and un-marks none.)
C26_DoneIsMonotonic ==
    [][\/ tasks' = <<>>
       \/ Len(tasks') # Len(tasks)
       \/ \A i \in DOMAIN tasks : tasks[i].done = 1 => tasks'[i].done = 1]_vars

\* C26, amended: no step of a Manager invocation or of an assessment removes a
\* row of the tasks table, changes its text or takes its done from true to
\* false; the one step that un-marks a task is the update_task request with
\* done = false, which changes that row and nothing else.
C26_OnlyUpdateTaskUnmarks ==
    [][/\ (mpc' # mpc \/ apc' # apc) =>
              /\ Len(tasks') = Len(tasks)
              /\ \A i \in DOMAIN tasks :
                    /\ tasks'[i].text = tasks[i].text
                    /\ tasks'[i].done >= tasks[i].done
       /\ \A i \in DOMAIN tasks :
              (Len(tasks') = Len(tasks) /\ tasks[i].done = 1 /\ tasks'[i].done = 0)
                  => /\ procs' = procs
                     /\ tasks' = [tasks EXCEPT ![i].done = 0]
                     /\ <<observations, compactions, decisions, pending,
                          strike_count, balance, transactions, orders>>' =
                        <<observations, compactions, decisions, pending,
                          strike_count, balance, transactions, orders>>]_vars

\* A Manager invocation found a task done, its oracle named a text that occurs
\* in that task, and the task is still done when the decision is recorded.
C26_Witness ==
    /\ mpc["m1"] = "done"
    /\ mloc["m1"].tasks_updated # <<>>
    /\ \E i \in DOMAIN tasks :
          /\ i \in DOMAIN snap.tasks
          /\ snap.tasks[i].done = 1
          /\ Like(tasks[i].text, mloc["m1"].tasks_updated[1])
          /\ tasks[i].done = 1

\* The Manager invocation in progress has marked a task done: a row that was not
\* done when the invocation read the database is done now.
CompletedThisRun ==
    \E i \in DOMAIN tasks :
        /\ i \in DOMAIN snap.tasks
        /\ snap.tasks[i].done = 0
        /\ tasks[i].done = 1

\* The mood table of the spec.
MoodTable(completed, is_productive, strikes) ==
    IF completed THEN "happy"
    ELSE IF is_productive /\ strikes = 0 THEN "happy"
    ELSE IF strikes >= 3 THEN "angry"
    ELSE IF strikes = 2 THEN "sad"
    ELSE "cool"

\* C28: the mood a Manager invocation answers with is the mood table applied to
\* (whether the invocation marked a task done, the is_productive of its response,
\* the strikes of its response): "happy" when a task was completed in this run,
\* else "happy" when productive at strike 0, else "angry" from 3 strikes, "sad"
\* at 2, "cool" otherwise.
C28_MoodIsTableOfTheRun ==
    mpc["m1"] = "done"
        => Response("m1").mood =
              MoodTable(CompletedThisRun, Response("m1").is_productive,
                        Response("m1").strike_count)

\* C30: the tasks_updated a Manager invocation keeps, answers with and writes to
\* its decision row holds only texts that matched: each occurs in a task that
\* was not done and that the invocation marked done; a text that matched no
\* task is not kept, so tasks count as completed for the mood only when the
\* invocation marked one.
C30_OnlyMatchedTextsRecorded ==
    (mpc["m1"] = "done" /\ ~mloc["m1"].skipped)
        => /\ \A k \in DOMAIN mloc["m1"].tasks_updated :
                 \E i \in DOMAIN tasks :
                    /\ i \in DOMAIN snap.tasks
                    /\ snap.tasks[i].done = 0
                    /\ tasks[i].done = 1
                    /\ Like(tasks[i].text, mloc["m1"].tasks_updated[k])
           /\ Last(decisions).tasks_updated = mloc["m1"].tasks_updated
           /\ (Len(Response("m1").tasks_updated) > 0) = CompletedThisRun

\* The assessment step in which the oracle's answer arrives.
Judged == apc = "oracle" /\ apc' \in {"reward", "done"} /\ aloc'.result # None

\* The table after the exact-match update with the texts kept: a row not done
\* whose text is one of them is done, every other row is as it was.
MarkedExactly(before, after, texts) ==
    /\ Len(after) = Len(before)
    /\ \A i \in DOMAIN before :
          after[i] = IF before[i].done = 0
                        /\ \E k \in DOMAIN texts : texts[k] = before[i].text
                     THEN [before[i] EXCEPT !.done = 1]
                     ELSE before[i]

\* C31: the tasks_to_complete of an assessment holds only texts of entries of
\* the supplied list that sit at a 1-based index the oracle returned as an
\* integer and that the list gives as not done; an element that is out of range
\* or is not an integer is ignored; and only the rows whose text equals one of
\* those texts are marked done.
C31_OnlyIntegerIndicesInRange ==
    [][Judged =>
         LET numbers == Get(aloc'.result[1].completed_task_numbers, <<>>)
             task_list == aloc'.task_list
             texts == aloc'.tasks_to_complete
         IN /\ \A k \in DOMAIN texts :
                  \E j \in DOMAIN numbers :
                     /\ numbers[j].type = "int"
                     /\ numbers[j].n \in 1..Len(task_list)
                     /\ ~task_list[numbers[j].n].done
                     /\ task_list[numbers[j].n].text = texts[k]
            /\ MarkedExactly(tasks, tasks', texts)]_vars

\* The elements of `numbers` that int() turns into the 1-based index of an entry
\* the list gives as not done.
Eligible(task_list, numbers) ==
    {j \in DOMAIN numbers :
        /\ PyInt(numbers[j]) # None
        /\ PyInt(numbers[j])[1] \in 1..Len(task_list)
        /\ ~task_list[PyInt(numbers[j])[1]].done}

\* C31, amended: each element of completed_task_numbers goes through int(); an
\* element it refuses or that is out of range is ignored, and tasks_to_complete
\* holds, one per remaining element and in their order, the text of the entry
\* at that index that the list gives as not done; only the rows not done whose
\* text equals one of those texts are marked done.
C31_IndicesAfterIntConversion ==
    [][Judged =>
         LET numbers == Get(aloc'.result[1].completed_task_numbers, <<>>)
             task_list == aloc'.task_list
             texts == aloc'.tasks_to_complete
             ok == Eligible(task_list, numbers)
         IN /\ Len(texts) = Cardinality(ok)
            /\ \A k \in DOMAIN texts :
                  \E j \in ok :
                     /\ Cardinality({h \in ok : h <= j}) = k
                     /\ task_list[PyInt(numbers[j])[1]].text = texts[k]
            /\ MarkedExactly(tasks, tasks', texts)]_vars

\* The oracle returned the fraction 1.5 for a list whose first entry is pending
\* and in the table: int() made it 1, and the task was marked done.
C31_Witness ==
    /\ apc \in {"reward", "done"}
    /\ aloc.result # None
    /\ aloc.result[1].completed_task_numbers = Some(<<JFloat(15)>>)
    /\ aloc.tasks_to_complete # <<>>
    /\ \E i \in DOMAIN tasks :
          tasks[i].text = aloc.tasks_to_complete[1] /\ tasks[i].done = 1

\* The oracle returned elements that are ignored (out of range, null) among
\* indices that are kept.
C31_WitnessIgnored ==
    /\ apc \in {"reward", "done"}
    /\ aloc.result # None
    /\ Len(Get(aloc.result[1].completed_task_numbers, <<>>)) = 4
    /\ Len(aloc.tasks_to_complete) = 2

\* C39: every reward order an assessment issues has tasks_completed no greater
\* than total_tasks, whatever the task list and whatever the indices the oracle
\* returns, an index returned twice included.
C39_CompletedAtMostTotal ==
    \A i \in DOMAIN orders : orders[i].tasks_completed <= orders[i].total_tasks

\* C32: no Compaction run reads a strike_count above 3, so every run that comes
\* to the strike evaluation takes the RESET branch and leaves strike_count at
\* 0; the KEEP branch is never taken.
C32_KeepBranchUnreachable ==
    [][/\ (cpc = "read_strike" /\ cpc' = "evaluate") => cloc'.current_strikes <= 3
       /\ (cpc = "evaluate" /\ cpc' = "done")
             => /\ cloc.current_strikes <= 3
                /\ strike_count' = 0]_vars

\* After four interjections in a row, with no reset in between, a Compaction run
\* has read strike_count at 3 and reset it.
C32_Witness ==
    /\ cpc = "done"
    /\ cloc.current_strikes = 3
    /\ strike_count = 0
    /\ resets = 0
    /\ Cardinality({i \in DOMAIN decisions : decisions[i].interjection}) = 4

\* C33: clearing the history empties the observations, the compactions, the
\* manager decisions and the pending interjections and sets strike_count to 0;
\* the tasks, the balance, the transactions and the reward orders stay as they
\* were.
C33_ClearHistoryKeepsTasksBankOrders ==
    [][ClearHistory
          => /\ observations' = <<>>
             /\ compactions' = <<>>
             /\ decisions' = <<>>
             /\ pending' = <<>>
             /\ strike_count' = 0
             /\ tasks' = tasks
             /\ balance' = balance
             /\ transactions' = transactions
             /\ orders' = orders]_vars

\* A Manager invocation found interjection rows, decisions and a penalty in the
\* database; the one reset taken before its response was sent removed the rows
\* and the decisions and the strikes and left the penalty, the lowered balance,
\* a task and a reward order in place: it was the clearing of the history.
C33_Witness ==
    /\ resets = 1
    /\ mpc["m1"] = "done"
    /\ snap # NoSnap
    /\ snap.pending # <<>>
    /\ snap.decisions # <<>>
    /\ snap.strike_count > 0
    /\ pending = <<>> /\ decisions = <<>> /\ observations = <<>> /\ compactions = <<>>
    /\ strike_count = 0
    /\ transactions # <<>>
    /\ transactions = snap.transactions
    /\ balance = snap.balance
    /\ balance < sbi_initial_balance
    /\ tasks # <<>>
    /\ orders # <<>>

\* No observation of the table is younger than the window of the Compaction
\* agent.
NoneInWindow ==
    \A i \in DOMAIN observations : observations[i].timestamp <= now - CompactionWindow

\* C34: a Compaction invocation that finds no observation in its window fails
\* at once and changes nothing, neither when it fails nor when the error is
\* sent: no compactions row is written, and strike_count and window_start keep
\* their values.
C34_EmptyWindowFailsUnchanged ==
    [][/\ (cpc = "idle" /\ cpc' # "idle" /\ NoneInWindow)
             => /\ cpc' = "failed"
                /\ db' = db
       /\ (cpc = "failed" /\ cpc' # "failed")
             => /\ cpc' = "idle"
                /\ db' = db]_vars

\* An invocation has failed on a table whose observations are all too old,
\* with strikes on the row and a window that began earlier.
C34_Witness ==
    /\ cpc = "failed"
    /\ observations # <<>>
    /\ NoneInWindow
    /\ compactions = <<>>
    /\ strike_count > 0
    /\ window_start < now

\* C35: while one worker alone serves POST /api/manager, so that no two Manager
\* invocations overlap, at most one pending_interjections row is
\* unacknowledged in every reachable state, whatever acknowledge, Compaction
\* and the resets do in between and meanwhile.
C35_OneLiveInterjectionWithoutOverlap ==
    /\ \A p \in Managers \ {"m1"} : mpc[p] = "idle"
    /\ Cardinality({i \in DOMAIN pending : pending[i].acknowledged = 0}) <= 1

\* Two interjections were acknowledged, a third is live, and the invocation
\* that came next was skipped.
C35_Witness ==
    /\ Len(pending) = 3
    /\ Cardinality({i \in DOMAIN pending : pending[i].acknowledged = 0}) = 1
    /\ mpc["m1"] = "done"
    /\ mloc["m1"].skipped

\* C36: a reset of the Compaction agent is not undone by a Manager invocation
\* in flight: once a Compaction step has set strike_count to 0, strike_count
\* is never above the number of interjections opened since; so the first
\* interjection opened after the reset, while strike_count is still 0 and the
\* Compaction response is on its way, leaves strike_count at 1 at most, even
\* when its Manager invocation read strike_count before the reset.
C36_CompactionResetStands ==
    [][(/\ cpc = "done"
        /\ cloc.current_strikes <= 3
        /\ strike_count = 0
        /\ Len(pending') = Len(pending) + 1)
          => strike_count' <= 1]_vars

\* The sum of the amounts of the rows of the ledger.
RECURSIVE SumOfAmounts(_)
SumOfAmounts(rows) ==
    IF rows = <<>> THEN 0 ELSE rows[1].amount + SumOfAmounts(Tail(rows))

\* C37: the ledger is conserved: while no reset was served and no deduction
\* was clamped (no row left the account at 0), the initial balance less the
\* balance of the account is the sum of the amounts of the PENALTY rows,
\* however the deductions overlap.
C37_LedgerConserved ==
    (resets = 0 /\ \A i \in DOMAIN transactions : transactions[i].balance_after > 0)
        => sbi_initial_balance - balance = SumOfAmounts(transactions)

\* C38: an unacknowledged interjection stays as it is until acknowledge,
\* clear-history or the full reset is served: no other step acknowledges or
\* deletes a pending_interjections row, every Manager invocation that starts
\* meanwhile is skipped, and strike_count does not rise.
C38_LiveInterjectionHolds ==
    [][(Open(pending) # {} /\ ~(Acknowledge(FALSE) \/ ClearHistory \/ ResetAll))
          => /\ \A i \in Open(pending) :
                   i \in DOMAIN pending' /\ pending'[i] = pending[i]
             /\ \A p \in Managers :
                   (mpc[p] = "idle" /\ mpc'[p] # "idle")
                       => (mpc'[p] = "done" /\ mloc'[p].skipped)
             /\ strike_count' <= strike_count]_vars

====
